---- MODULE Spec2Model ----
(***************************************************************************)
(* Model of t2md (src/t2md/cli.py): the transcript chunking functions      *)
(* split_large_text and build_transcript_chunks, and the `run` command's   *)
(* single-pass / map-reduce orchestration with its resumable checkpoint    *)
(* cache.                                                                  *)
(*                                                                         *)
(* A Python str is modelled as a sequence of one-character strings, so     *)
(* that trimming, splitting, slicing and newline translation are computed  *)
(* and not assumed.                                                        *)
(***************************************************************************)
EXTENDS Integers, Sequences, FiniteSets, TLC

VARIABLES
    \* ---- pure-function harness (split_large_text, build_transcript_chunks)
    stage,        \* "input" before the function is applied, "done" after
    inp,          \* the arguments the function is applied to
    outp,         \* the value it returned
    \* ---- the run command
    pc,           \* position of the run in its code
    cfg,          \* the run's inputs (arguments, environment, input folder)
    resume,       \* the --resume/--no-resume flag of the current run
    run_no,       \* number of the current run (runs happen one after another)
    disk,         \* the output directory: out dir, cache dir, checkpoints, final file
    idx,          \* loop index of the chunk loop (enumerate(chunks, start=1))
    chunk_notes,  \* the list chunk_notes of the current run
    output,       \* the text returned by the single-pass or the reduce call
    calls,        \* the generation-backend calls of the current run, in order
    hist          \* observations of the current and the previous run

pvars == <<stage, inp, outp>>
ovars == <<pc, cfg, resume, run_no, disk, idx, chunk_notes, output, calls, hist>>
vars  == <<stage, inp, outp,
           pc, cfg, resume, run_no, disk, idx, chunk_notes, output, calls, hist>>

----------------------------------------------------------------------------
(* Bounds of the model *)

MaxTextLen == 6     \* longest text given to split_large_text
MaxBudget  == 4     \* largest max_chars given to split_large_text
MaxUnits   == 3     \* longest list of formatted units given to the packing loop
MaxChunkChars == 90 \* largest chunk budget given to the packing loop
MaxChunks  == 3     \* largest number of chunks a run's input assembles into
MaxRuns    == 2     \* number of consecutive runs over the same output directory

----------------------------------------------------------------------------
(* Characters and strings *)

LF == "\n"
CR == "\r"
SP == " "

\* str.strip() removes leading and trailing whitespace characters
IsSpace(c) == c \in {SP, LF, CR, "\t"}

RECURSIVE lstrip(_)
lstrip(s) ==
    IF s # <<>> /\ IsSpace(Head(s)) THEN lstrip(Tail(s)) ELSE s

RECURSIVE rstrip(_)
rstrip(s) ==
    IF s # <<>> /\ IsSpace(s[Len(s)]) THEN rstrip(SubSeq(s, 1, Len(s) - 1)) ELSE s

strip(s) == rstrip(lstrip(s))

\* "".join(parts)
RECURSIVE join(_)
join(parts) ==
    IF parts = <<>> THEN <<>> ELSE Head(parts) \o join(Tail(parts))

\* s[i : i + n] with a 0-based start, as a Python slice (clipped at the end)
Slice(s, i, n) == SubSeq(s, i + 1, IF i + n > Len(s) THEN Len(s) ELSE i + n)

Max(a, b) == IF a >= b THEN a ELSE b

\* all sequences over S of length 0..n
RECURSIVE SeqsUpTo(_, _)
SeqsUpTo(S, n) ==
    IF n = 0 THEN {<<>>}
    ELSE LET shorter == SeqsUpTo(S, n - 1)
         IN  shorter \cup {Append(s, c) : s \in {t \in shorter : Len(t) = n - 1}, c \in S}

\* str(n) for a natural number n
Digit(d) == <<"0", "1", "2", "3", "4", "5", "6", "7", "8", "9">>[d + 1]

RECURSIVE Str(_)
Str(n) == IF n < 10 THEN <<Digit(n)>> ELSE Str(n \div 10) \o <<Digit(n % 10)>>

\* Reading a file in text mode (newline=None) translates "\r\n" and "\r" to "\n"
RECURSIVE UniversalNewlines(_)
UniversalNewlines(s) ==
    IF s = <<>> THEN <<>>
    ELSE IF Head(s) = CR
         THEN IF Len(s) >= 2 /\ s[2] = LF
              THEN <<LF>> \o UniversalNewlines(SubSeq(s, 3, Len(s)))
              ELSE <<LF>> \o UniversalNewlines(Tail(s))
         ELSE <<Head(s)>> \o UniversalNewlines(Tail(s))

\* read_text(p) on a file holding `content`: p.read_text(...).strip()
read_text(content) == strip(UniversalNewlines(content))

----------------------------------------------------------------------------
(* split_large_text *)

PARA_SEP == <<LF, LF>>

\* text.split("\n\n"): separators are found left to right, without overlap
RECURSIVE SplitParas(_)
SplitParas(text) ==
    LET hits == {i \in 1..(Len(text) - 1) : text[i] = LF /\ text[i + 1] = LF}
    IN  IF hits = {} THEN <<text>>
        ELSE LET i == CHOOSE h \in hits : \A g \in hits : h <= g
             IN  <<SubSeq(text, 1, i - 1)>> \o SplitParas(SubSeq(text, i + 2, Len(text)))

\* faulty variant of HardSplit: the oversized paragraph is emitted whole, not sliced
HardSplit_unsliced(para, i, max_chars) == <<para>>

\* for i in range(0, len(para), max_chars): pieces.append(para[i : i + max_chars])
RECURSIVE HardSplit(_, _, _)
HardSplit(para, i, max_chars) ==
    IF i >= Len(para) THEN <<>>
    ELSE LET chunk == Slice(para, i, max_chars)
         IN  (IF chunk # <<>> THEN <<chunk>> ELSE <<>>)
             \o HardSplit(para, i + max_chars, max_chars)

\* faulty variant of SplitIter: a paragraph that does not fit is dropped after the flush
SplitIter_drop(st, para, max_chars) ==
    IF para = <<>> THEN st
    ELSE
      LET addition == IF st.current = <<>> THEN para ELSE PARA_SEP \o para
      IN  IF st.current_len + Len(addition) <= max_chars
          THEN [st EXCEPT !.current = Append(@, addition),
                          !.current_len = @ + Len(addition)]
          ELSE [pieces |-> IF st.current # <<>>
                           THEN Append(st.pieces, join(st.current))
                           ELSE st.pieces,
                current |-> <<>>, current_len |-> 0]

\* one iteration of `for para in text.split("\n\n")` on the loop state
\* st = [pieces, current, current_len]
SplitIter(st, para, max_chars) ==
    IF para = <<>> THEN st
    ELSE
      LET addition == IF st.current = <<>> THEN para ELSE PARA_SEP \o para
      IN  IF st.current_len + Len(addition) <= max_chars
          THEN [st EXCEPT !.current = Append(@, addition),
                          !.current_len = @ + Len(addition)]
          ELSE
            LET flushed == IF st.current # <<>>
                           THEN Append(st.pieces, join(st.current))
                           ELSE st.pieces
            IN  IF Len(para) <= max_chars
                THEN [pieces |-> flushed, current |-> <<para>>, current_len |-> Len(para)]
                ELSE [pieces |-> flushed \o HardSplit(para, 0, max_chars),
                      current |-> <<>>, current_len |-> 0]

RECURSIVE SplitLoop(_, _, _)
SplitLoop(st, paras, max_chars) ==
    IF paras = <<>> THEN st
    ELSE SplitLoop(SplitIter(st, Head(paras), max_chars), Tail(paras), max_chars)

split_large_text(text, max_chars) ==
    IF Len(text) <= max_chars THEN <<text>>
    ELSE
      LET st == SplitLoop([pieces |-> <<>>, current |-> <<>>, current_len |-> 0],
                          SplitParas(text), max_chars)
          pieces == IF st.current # <<>>
                    THEN Append(st.pieces, join(st.current))
                    ELSE st.pieces
      IN  IF pieces # <<>> THEN pieces ELSE <<text>>

----------------------------------------------------------------------------
(* build_transcript_chunks *)

MIN_FILE_PIECE == 10000
PIECE_MARGIN   == 4000

UNIT_HEAD ==
    <<LF, LF, "-", "-", "-", LF, LF, "#", "#", SP,
      "S", "O", "U", "R", "C", "E", SP, "F", "I", "L", "E", ":", SP>>

\* suffix = "" if total == 1 else f" (part {i}/{total})"
PartSuffix(i, total) ==
    IF total = 1 THEN <<>>
    ELSE <<SP, "(", "p", "a", "r", "t", SP>> \o Str(i) \o <<"/">> \o Str(total) \o <<")">>

\* f"\n\n---\n\n## SOURCE FILE: {file_path.name}{suffix}\n\n{segment}\n"
FormatUnit(name, i, total, segment) ==
    UNIT_HEAD \o name \o PartSuffix(i, total) \o <<LF, LF>> \o segment \o <<LF>>

\* the units of one file's segments, for i, segment in enumerate(segments, start=1)
FileUnits(name, segments) ==
    [i \in 1..Len(segments) |-> FormatUnit(name, i, Len(segments), segments[i])]

\* the first loop: a file is a record [name, content]; empty files are skipped
RECURSIVE build_units(_, _)
build_units(files, file_piece_limit) ==
    IF files = <<>> THEN <<>>
    ELSE LET raw == read_text(Head(files).content)
             rest == build_units(Tail(files), file_piece_limit)
         IN  IF raw = <<>> THEN rest
             ELSE FileUnits(Head(files).name, split_large_text(raw, file_piece_limit))
                  \o rest

\* faulty variant of PackIter: the budget is compared with the unit, not the candidate
PackIter_unit(st, unit, chunk_chars) ==
    LET candidate == IF st.current = <<>> THEN unit ELSE st.current \o unit
    IN  IF st.current # <<>> /\ Len(unit) > chunk_chars
        THEN [chunks |-> Append(st.chunks, strip(st.current)), current |-> unit]
        ELSE [chunks |-> st.chunks, current |-> candidate]

\* one iteration of `for unit in units` on the loop state st = [chunks, current]
PackIter(st, unit, chunk_chars) ==
    LET candidate == IF st.current = <<>> THEN unit ELSE st.current \o unit
    IN  IF st.current # <<>> /\ Len(candidate) > chunk_chars
        THEN [chunks |-> Append(st.chunks, strip(st.current)), current |-> unit]
        ELSE [chunks |-> st.chunks, current |-> candidate]

RECURSIVE PackLoop(_, _, _)
PackLoop(st, units, chunk_chars) ==
    IF units = <<>> THEN st
    ELSE PackLoop(PackIter(st, Head(units), chunk_chars), Tail(units), chunk_chars)

\* faulty variant of pack_units: the chunk being filled when the units run out is not appended
pack_units_noFlush(units, chunk_chars) ==
    PackLoop([chunks |-> <<>>, current |-> <<>>], units, chunk_chars).chunks

\* the second loop and the final flush
pack_units(units, chunk_chars) ==
    LET st == PackLoop([chunks |-> <<>>, current |-> <<>>], units, chunk_chars)
    IN  IF st.current # <<>> THEN Append(st.chunks, strip(st.current)) ELSE st.chunks

build_transcript_chunks(files, chunk_chars) ==
    LET file_piece_limit == Max(MIN_FILE_PIECE, chunk_chars - PIECE_MARGIN)
        units == build_units(files, file_piece_limit)
    IN  IF units = <<>> THEN <<>> ELSE pack_units(units, chunk_chars)

----------------------------------------------------------------------------
(* The run command is idle while a pure function is exercised, and the     *)
(* harness is idle while the run command is exercised.                     *)

OrchIdle ==
    /\ pc = "idle"
    /\ cfg = <<>>
    /\ resume = FALSE
    /\ run_no = 0
    /\ disk = <<>>
    /\ idx = 0
    /\ chunk_notes = <<>>
    /\ output = <<>>
    /\ calls = <<>>
    /\ hist = <<>>

PureIdle ==
    /\ stage = "idle"
    /\ inp = <<>>
    /\ outp = <<>>

----------------------------------------------------------------------------
(* The run command: inputs *)

MIN_CHUNK_CHARS == 20000

UPPER == <<"A", "B", "C", "D", "E", "F", "G", "H", "I", "J", "K", "L", "M",
           "N", "O", "P", "Q", "R", "S", "T", "U", "V", "W", "X", "Y", "Z">>
LOWER == <<"a", "b", "c", "d", "e", "f", "g", "h", "i", "j", "k", "l", "m",
           "n", "o", "p", "q", "r", "s", "t", "u", "v", "w", "x", "y", "z">>

\* str.lower()
lower(s) ==
    [i \in 1..Len(s) |->
        IF \E j \in 1..26 : UPPER[j] = s[i]
        THEN LOWER[CHOOSE j \in 1..26 : UPPER[j] = s[i]]
        ELSE s[i]]

\* fmt = format.lower().strip()
NormFormat(format) == strip(lower(format))

FORMATS == {<<"m", "d">>, <<"d", "o", "c", "x">>, <<"t", "e", "x">>}

\* the --format values a run is given
FormatInputs == {<<"m", "d">>, <<SP, "T", "e", "X">>, <<"p", "d", "f">>}

\* The inputs of a run.  The transcript folder is given by what the run
\* observes of it: whether it exists, whether it holds supported files, and
\* the number of chunks build_transcript_chunks assembles from them (0 when
\* every file is empty after trimming).  With chunk_chars >= 20000 the chunk
\* texts are too long to enumerate, so chunk k's text is the stand-in "t<k>".
\* Inputs of more than two chunks are run with the default prompt and the
\* format "md" only.
Configs ==
    { c \in [api_key : BOOLEAN,
             folder_exists : BOOLEAN,
             prompt : {"default", "missing", "given"},
             chunk_chars : {MIN_CHUNK_CHARS - 1, MIN_CHUNK_CHARS},
             files : BOOLEAN,
             nchunks : 0..MaxChunks,
             format : FormatInputs] :
        /\ ~c.folder_exists => ~c.files
        /\ ~c.files => c.nchunks = 0
        /\ c.nchunks > 2 => c.prompt = "default" /\ c.format = <<"m", "d">> }

chunks(c) == [k \in 1..c.nchunks |-> <<"t">> \o Str(k)]

\* faulty variant of ValidationError: the chunk budget floor and the format are not checked
ValidationError_lax(c) ==
    IF ~c.api_key THEN "no_api_key"
    ELSE IF ~c.folder_exists THEN "folder_not_found"
    ELSE IF c.prompt = "missing" THEN "prompt_not_found"
    ELSE IF ~c.files THEN "no_transcripts"
    ELSE IF c.nchunks = 0 THEN "all_empty"
    ELSE "ok"

\* the checks of run before the generation branch, in the order of the code;
\* the first one that fails raises typer.BadParameter
ValidationError(c) ==
    IF ~c.api_key THEN "no_api_key"
    ELSE IF ~c.folder_exists THEN "folder_not_found"
    ELSE IF c.prompt = "missing" THEN "prompt_not_found"
    ELSE IF c.chunk_chars < MIN_CHUNK_CHARS THEN "chunk_chars_too_small"
    ELSE IF ~c.files THEN "no_transcripts"
    ELSE IF c.nchunks = 0 THEN "all_empty"
    ELSE IF NormFormat(c.format) \notin FORMATS THEN "bad_format"
    ELSE "ok"

\* faulty variant of IsSinglePass: the single-chunk case goes through map/reduce too
IsSinglePass_never(n) == n = 0

\* if len(chunks) == 1
IsSinglePass(n) == n = 1

----------------------------------------------------------------------------
(* The run command: files, backend, notes *)

Absent == [exists |-> FALSE, content |-> <<>>]
File(content) == [exists |-> TRUE, content |-> content]

NoOutput == [exists |-> FALSE, fmt |-> <<>>, text |-> <<>>]

\* what the backend may return as resp.output_text: blank text, text with
\* surrounding whitespace, text with a "\r\n" line break inside
Responses ==
    { <<SP, LF>>,
      <<SP, "a", LF>>,
      <<"b", CR, LF, "c">> }

\* faulty variant of generate_with_model: an empty response is returned, not raised
generate_with_model_unchecked(response) ==
    [ok |-> TRUE, output |-> strip(response)]

\* generate_with_model on the backend's response: output is trimmed, and an
\* empty output raises (ok = FALSE)
generate_with_model(response) ==
    LET out == strip(response)
    IN  [ok |-> out # <<>>, output |-> out]

NOTE_HEAD == <<LF, LF, "-", "-", "-", LF, LF, "#", SP, "C", "H", "U", "N", "K", SP>>
NOTE_MID  == <<SP, "N", "O", "T", "E", "S", LF, LF>>

\* faulty variant of FormatNote: the header carries the 0-based index
FormatNote_zeroBased(k, note) ==
    NOTE_HEAD \o Str(k - 1) \o NOTE_MID \o note \o <<LF>>

\* f"\n\n---\n\n# CHUNK {idx} NOTES\n\n{note}\n"
FormatNote(k, note) ==
    NOTE_HEAD \o Str(k) \o NOTE_MID \o note \o <<LF>>

\* faulty variant of CanReuse: the resume flag is tested the wrong way round
CanReuse_notResume(res, ckpt, k) ==
    /\ ~res
    /\ ckpt[k].exists
    /\ read_text(ckpt[k].content) # <<>>

\* faulty variant of CanReuse: the checkpoint of the previous index is looked up
CanReuse_previous(res, ckpt, k) ==
    /\ res
    /\ k > 1
    /\ ckpt[k - 1].exists
    /\ read_text(ckpt[k - 1].content) # <<>>

\* faulty variant of CanReuse: an existing checkpoint is reused even when it is empty
CanReuse_anyFile(res, ckpt, k) ==
    /\ res
    /\ ckpt[k].exists

\* if resume and checkpoint_file.exists(): note = read_text(...); if note:
CanReuse(res, ckpt, k) ==
    /\ res
    /\ ckpt[k].exists
    /\ read_text(ckpt[k].content) # <<>>

\* the prompts, given by the template used and the values filled in
SinglePrompt(c) ==
    [kind |-> "single", idx |-> 0, total |-> 0, text |-> chunks(c)[1]]
ChunkPrompt(c, k) ==
    [kind |-> "chunk", idx |-> k, total |-> c.nchunks, text |-> chunks(c)[k]]
ReducePrompt(notes) ==
    [kind |-> "reduce", idx |-> 0, total |-> 0, text |-> strip(join(notes))]

Call(prompt, response) == [prompt |-> prompt, response |-> response]

----------------------------------------------------------------------------
(* The run command: one action per step between two blocking operations *)

NewHist(d, prev_fail, prev_ckpt, origin) ==
    [ start_disk  |-> d,          \* the disk when the run started
      error       |-> "",         \* the error that ended the run
      fail_idx    |-> 0,          \* chunk index of an empty response
      abort_ckpt  |-> <<>>,       \* the checkpoints at the moment of that abort
      written     |-> {},         \* checkpoints written by this run
      mkdir       |-> FALSE,      \* cache_dir.mkdir was called by this run
      out_written |-> FALSE,      \* the final file was written by this run
      trace       |-> <<>>,       \* checkpoint reads, chunk calls, notes, reduce
      prev_fail   |-> prev_fail,  \* fail_idx of the previous run
      prev_ckpt   |-> prev_ckpt,  \* abort_ckpt of the previous run
      origin      |-> origin ]    \* per checkpoint: the run that wrote it and
                                  \* the note that run appended

\* a checkpoint a prior run left: a trimmed non-empty note, or an empty file
\* (the write was interrupted after the file was created)
PriorCheckpoints == {Absent, File(<<>>), File(<<"a">>)}

InitDisks ==
    { [out_dir |-> FALSE, cache_dir |-> FALSE,
       ckpt |-> [k \in 1..MaxChunks |-> Absent], out_file |-> NoOutput] }
    \cup
    { [out_dir |-> TRUE, cache_dir |-> TRUE, ckpt |-> f, out_file |-> NoOutput] :
        f \in [1..MaxChunks -> PriorCheckpoints] }

Init ==
    /\ PureIdle
    /\ pc = "start"
    /\ cfg \in Configs
    /\ resume \in BOOLEAN
    /\ run_no = 1
    /\ disk \in InitDisks
    /\ idx = 0
    /\ chunk_notes = <<>>
    /\ output = <<>>
    /\ calls = <<>>
    /\ hist = NewHist(disk, 0, <<>>,
                      [k \in 1..MaxChunks |-> [run |-> 0, note |-> disk.ckpt[k].content]])

\* lines 544-585: api key, out.mkdir, and the checks up to the format check
Validate ==
    /\ pc = "start"
    /\ disk' = IF cfg.api_key THEN [disk EXCEPT !.out_dir = TRUE] ELSE disk
    /\ LET err == ValidationError(cfg)
       IN  IF err # "ok"
           THEN /\ pc' = "aborted"
                /\ hist' = [hist EXCEPT !.error = err]
           ELSE /\ pc' = IF IsSinglePass(cfg.nchunks) THEN "single" ELSE "open_cache"
                /\ UNCHANGED hist
    /\ UNCHANGED <<pvars, cfg, resume, run_no, idx, chunk_notes, output, calls>>

\* lines 587-590: the single generation call with the whole-transcript prompt
SinglePass ==
    /\ pc = "single"
    /\ \E r \in Responses :
         LET g == generate_with_model(r)
         IN  /\ calls' = Append(calls, Call(SinglePrompt(cfg), r))
             /\ IF g.ok
                THEN /\ output' = g.output
                     /\ pc' = "write"
                     /\ UNCHANGED hist
                ELSE /\ pc' = "aborted"
                     /\ hist' = [hist EXCEPT !.error = "empty_response"]
                     /\ UNCHANGED output
    /\ UNCHANGED <<pvars, cfg, resume, run_no, disk, idx, chunk_notes>>

\* lines 592-602: run hash, cache_dir.mkdir(parents=True, exist_ok=True)
OpenCache ==
    /\ pc = "open_cache"
    /\ disk' = [disk EXCEPT !.cache_dir = TRUE]
    /\ hist' = [hist EXCEPT !.mkdir = TRUE]
    /\ chunk_notes' = <<>>
    /\ idx' = 1
    /\ pc' = "chunks"
    /\ UNCHANGED <<pvars, cfg, resume, run_no, output, calls>>

\* lines 603-610: the checkpoint of chunk idx is reused
ReuseCheckpoint ==
    /\ pc = "chunks"
    /\ idx <= cfg.nchunks
    /\ CanReuse(resume, disk.ckpt, idx)
    /\ LET note == read_text(disk.ckpt[idx].content)
       IN  /\ chunk_notes' = Append(chunk_notes, FormatNote(idx, note))
           /\ hist' = [hist EXCEPT !.trace = @ \o
                         << [op |-> "read", idx |-> idx, note |-> <<>>],
                            [op |-> "cached", idx |-> idx, note |-> note] >>]
    /\ idx' = idx + 1
    /\ UNCHANGED <<pvars, pc, cfg, resume, run_no, disk, output, calls>>

\* lines 603-616: no usable checkpoint; the backend is asked for the notes of
\* chunk idx, the checkpoint is written and the note appended
GenerateChunk ==
    /\ pc = "chunks"
    /\ idx <= cfg.nchunks
    /\ ~CanReuse(resume, disk.ckpt, idx)
    /\ \E r \in Responses :
         LET g == generate_with_model(r)
             reads == IF resume /\ disk.ckpt[idx].exists
                      THEN << [op |-> "read", idx |-> idx, note |-> <<>>] >>
                      ELSE <<>>
             call == << [op |-> "call", idx |-> idx, note |-> <<>>] >>
         IN  /\ calls' = Append(calls, Call(ChunkPrompt(cfg, idx), r))
             /\ IF g.ok
                THEN /\ disk' = [disk EXCEPT !.ckpt[idx] = File(g.output)]
                     /\ chunk_notes' = Append(chunk_notes, FormatNote(idx, g.output))
                     /\ idx' = idx + 1
                     /\ hist' = [hist EXCEPT
                           !.trace = @ \o reads \o call \o
                               << [op |-> "generated", idx |-> idx, note |-> g.output] >>,
                           !.written = @ \cup {idx},
                           !.origin[idx] = [run |-> run_no, note |-> g.output]]
                     /\ UNCHANGED pc
                ELSE /\ pc' = "aborted"
                     /\ hist' = [hist EXCEPT !.trace = @ \o reads \o call,
                                             !.error = "empty_response",
                                             !.fail_idx = idx,
                                             !.abort_ckpt = disk.ckpt]
                     /\ UNCHANGED <<disk, chunk_notes, idx>>
    /\ UNCHANGED <<pvars, cfg, resume, run_no, output>>

\* lines 618-620: the reduce call on the concatenated chunk notes
Reduce ==
    /\ pc = "chunks"
    /\ idx > cfg.nchunks
    /\ \E r \in Responses :
         LET g == generate_with_model(r)
         IN  /\ calls' = Append(calls, Call(ReducePrompt(chunk_notes), r))
             /\ IF g.ok
                THEN /\ output' = g.output
                     /\ pc' = "write"
                     /\ hist' = [hist EXCEPT !.trace = Append(@,
                                    [op |-> "reduce", idx |-> 0, note |-> <<>>])]
                ELSE /\ pc' = "aborted"
                     /\ hist' = [hist EXCEPT !.trace = Append(@,
                                    [op |-> "reduce", idx |-> 0, note |-> <<>>]),
                                 !.error = "empty_response"]
                     /\ UNCHANGED output
    /\ UNCHANGED <<pvars, cfg, resume, run_no, disk, idx, chunk_notes>>

\* lines 622-630: the final file {module}_All.{fmt}
WriteOutput ==
    /\ pc = "write"
    /\ disk' = [disk EXCEPT !.out_file =
                  [exists |-> TRUE, fmt |-> NormFormat(cfg.format), text |-> output]]
    /\ hist' = [hist EXCEPT !.out_written = TRUE]
    /\ pc' = "done"
    /\ UNCHANGED <<pvars, cfg, resume, run_no, idx, chunk_notes, output, calls>>

\* the command is invoked again with the same fingerprint-affecting inputs
\* (resume is not one of them)
NextRun ==
    /\ pc \in {"done", "aborted"}
    /\ run_no < MaxRuns
    /\ run_no' = run_no + 1
    /\ resume' \in BOOLEAN
    /\ pc' = "start"
    /\ idx' = 0
    /\ chunk_notes' = <<>>
    /\ output' = <<>>
    /\ calls' = <<>>
    /\ hist' = NewHist(disk, hist.fail_idx, hist.abort_ckpt, hist.origin)
    /\ UNCHANGED <<pvars, cfg, disk>>

Next ==
    \/ Validate
    \/ SinglePass
    \/ OpenCache
    \/ ReuseCheckpoint
    \/ GenerateChunk
    \/ Reduce
    \/ WriteOutput
    \/ NextRun

Spec == Init /\ [][Next]_vars

----------------------------------------------------------------------------
(* Claims about the run command (checked under Spec) *)

VALIDATION_ERRORS ==
    {"no_api_key", "folder_not_found", "prompt_not_found", "chunk_chars_too_small",
     "no_transcripts", "all_empty", "bad_format"}

\* the run got past the checks and ended, with a final file or on an empty response
RunEnded ==
    \/ pc \in {"write", "done"}
    \/ pc = "aborted" /\ hist.error = "empty_response"

IsBlank(response) == strip(response) = <<>>

\* a checkpoint file that exists and is not empty
NonEmptyCheckpoint(ckpt, k) == ckpt[k].exists /\ ckpt[k].content # <<>>

IsChunkCall(c) == c.prompt.kind = "chunk"
IsReduceCall(c) == c.prompt.kind = "reduce"

\* the chunk indices of the chunk-note calls of the current run, in call order
ChunkCallIdxs ==
    LET cc == SelectSeq(calls, IsChunkCall)
    IN  [i \in 1..Len(cc) |-> cc[i].prompt.idx]

IsPrefix(a, b) == Len(a) <= Len(b) /\ SubSeq(b, 1, Len(a)) = a

\* C1: in a MapReduce run with resume=true that found a non-empty checkpoint
\* file for every chunk index 1..N, no backend call carries a chunk-note
\* prompt, and the run makes exactly one backend call, the reduce call.
C1_ResumeAllCached ==
    ( /\ resume
      /\ cfg.nchunks > 1
      /\ \A k \in 1..cfg.nchunks : NonEmptyCheckpoint(hist.start_disk.ckpt, k) )
    =>
      /\ \A i \in 1..Len(calls) : IsReduceCall(calls[i])
      /\ Len(calls) <= 1
      /\ RunEnded => Len(calls) = 1

\* C1 witness: a second run resumed over the checkpoints the first run wrote
\* for all of its chunks, and finished after the reduce call alone
C1_Witness ==
    /\ pc = "done"
    /\ resume
    /\ cfg.nchunks = MaxChunks
    /\ \A k \in 1..cfg.nchunks :
          NonEmptyCheckpoint(hist.start_disk.ckpt, k) /\ hist.origin[k].run = 1
    /\ run_no = 2
    /\ Len(calls) = 1
    /\ IsReduceCall(calls[1])

\* C2: a blank response ends the run at that call; when it answers the prompt
\* of chunk k, this run has written no checkpoint for k or any later index,
\* makes no reduce call and produces no final file; a blank response to the
\* reduce or single-pass call also leaves no final file.  And every checkpoint
\* this run wrote holds the trimmed non-blank response to that chunk's prompt.
C2_NoCheckpointOnEmpty ==
    /\ \A i \in 1..Len(calls) :
         IsBlank(calls[i].response) =>
           /\ i = Len(calls)
           /\ pc = "aborted"
           /\ ~hist.out_written
           /\ disk.out_file = hist.start_disk.out_file
           /\ IsChunkCall(calls[i]) =>
                /\ \A j \in calls[i].prompt.idx..MaxChunks :
                      j \notin hist.written /\ disk.ckpt[j] = hist.start_disk.ckpt[j]
                /\ \A n \in 1..Len(calls) : ~IsReduceCall(calls[n])
    /\ \A k \in 1..MaxChunks :
         IF k \in hist.written
         THEN \E i \in 1..Len(calls) :
                /\ IsChunkCall(calls[i])
                /\ calls[i].prompt.idx = k
                /\ ~IsBlank(calls[i].response)
                /\ disk.ckpt[k] = File(strip(calls[i].response))
         ELSE disk.ckpt[k] = hist.start_disk.ckpt[k]

\* C2 witness: the backend answered chunk 1 and returned blank text for
\* chunk 2 of 3: the run stopped with the checkpoint of chunk 1 only
C2_Witness ==
    /\ pc = "aborted"
    /\ cfg.nchunks >= 3
    /\ hist.fail_idx = 2
    /\ hist.written = {1}
    /\ ~hist.start_disk.cache_dir
    /\ ~disk.ckpt[2].exists

\* the indices k0..n without a non-empty checkpoint, ascending
RECURSIVE MissingFrom(_, _, _)
MissingFrom(ckpt, k0, n) ==
    IF k0 > n THEN <<>>
    ELSE (IF NonEmptyCheckpoint(ckpt, k0) THEN <<>> ELSE <<k0>>)
         \o MissingFrom(ckpt, k0 + 1, n)

IsNote(e) == e.op \in {"cached", "generated"}

\* the reduce input an uninterrupted run builds when the backend returns, for
\* each chunk, the text it returned when that chunk's note was generated
FreshReduceInput ==
    strip(join([k \in 1..cfg.nchunks |-> FormatNote(k, hist.origin[k].note)]))

\* C4: a checkpoint that a run generated and wrote gives, when it is reused,
\* the same note text as was appended in the run that wrote it, and the
\* reduce prompt of a resumed run equals that of an uninterrupted run with
\* the same backend text per chunk.
C4_CacheHitSameAsFresh ==
    /\ \A p \in 1..Len(hist.trace) :
         (hist.trace[p].op = "cached" /\ hist.origin[hist.trace[p].idx].run >= 1) =>
            hist.trace[p].note = hist.origin[hist.trace[p].idx].note
    /\ \A i \in 1..Len(calls) :
         (IsReduceCall(calls[i]) /\ \A k \in 1..cfg.nchunks : hist.origin[k].run >= 1) =>
            calls[i].prompt.text = FreshReduceInput

\* number of notes obtained before position p of the trace
NotesBefore(p) == Len(SelectSeq(SubSeq(hist.trace, 1, p - 1), IsNote))

\* the notes obtained by the current run, in the order obtained
NotesObtained == SelectSeq(hist.trace, IsNote)

CHUNK_WORD == <<"C", "H", "U", "N", "K">>
NOTES_WORD == <<"N", "O", "T", "E", "S">>

\* the k-th note under the header 'CHUNK k NOTES', between a rule and a newline
UnderHeader(k, note) ==
    <<LF, LF, "-", "-", "-", LF, LF, "#", SP>> \o CHUNK_WORD \o <<SP>> \o Str(k)
        \o <<SP>> \o NOTES_WORD \o <<LF, LF>> \o note \o <<LF>>

\* C5: every checkpoint read, chunk call and note of chunk k happens when
\* exactly the notes of 1..k-1 have been obtained; the reduce call happens when
\* N notes have been obtained; and the reduce input is the N notes in index
\* order, the k-th under the header 'CHUNK k NOTES'.
C5_ChunksInOrder ==
    /\ \A p \in 1..Len(hist.trace) :
         IF hist.trace[p].op = "reduce"
         THEN NotesBefore(p) = cfg.nchunks
         ELSE hist.trace[p].idx = NotesBefore(p) + 1
    /\ Len(chunk_notes) = Len(NotesObtained)
    /\ \A i \in 1..Len(calls) :
         /\ IsChunkCall(calls[i]) =>
              \E p \in 1..Len(hist.trace) :
                 hist.trace[p].op = "call" /\ hist.trace[p].idx = calls[i].prompt.idx
         /\ IsReduceCall(calls[i]) =>
              /\ Len(NotesObtained) = cfg.nchunks
              /\ hist.trace[Len(hist.trace)].op = "reduce"
              /\ calls[i].prompt.text =
                    strip(join([k \in 1..cfg.nchunks |->
                                   UnderHeader(k, NotesObtained[k].note)]))

\* C5 witness: a run over three chunks finished with notes taken partly from
\* checkpoints and partly from the backend
C5_Witness ==
    /\ pc = "done"
    /\ cfg.nchunks = 3
    /\ Len(NotesObtained) = 3
    /\ NotesObtained[1].op = "generated"
    /\ NotesObtained[2].op = "cached"
    /\ NotesObtained[3].op = "generated"
    /\ NotesObtained[1].note # NotesObtained[3].note

\* C6: with exactly one chunk the run makes exactly one backend call, with the
\* single-pass prompt, builds no chunk note, never calls cache_dir.mkdir and
\* reads or writes no checkpoint, whatever resume is and whatever is on disk.
C6_SingleChunk ==
    cfg.nchunks = 1 =>
      /\ \A i \in 1..Len(calls) : calls[i].prompt.kind = "single"
      /\ Len(calls) <= 1
      /\ RunEnded => Len(calls) = 1
      /\ chunk_notes = <<>>
      /\ hist.trace = <<>>
      /\ hist.written = {}
      /\ ~hist.mkdir
      /\ disk.cache_dir = hist.start_disk.cache_dir
      /\ disk.ckpt = hist.start_disk.ckpt

\* C6 witness: a resumed single-chunk run finished with one call although a
\* checkpoint named chunk_001 was on disk
C6_Witness ==
    /\ pc = "done"
    /\ cfg.nchunks = 1
    /\ resume
    /\ NonEmptyCheckpoint(hist.start_disk.ckpt, 1)
    /\ Len(calls) = 1
    /\ calls[1].prompt.kind = "single"

\* the validation failures: input directory missing, prompt file missing,
\* chunk budget below the floor, no supported input files, all input files
\* empty after trimming, unsupported format string
Defective(c) ==
    \/ ~c.folder_exists
    \/ c.prompt = "missing"
    \/ c.chunk_chars < 20000
    \/ ~c.files
    \/ c.nchunks = 0
    \/ strip(lower(c.format)) \notin {<<"m", "d">>, <<"d", "o", "c", "x">>, <<"t", "e", "x">>}

\* C7: a run whose inputs have a validation failure aborts with a validation
\* error, having made no backend call, created no cache directory or
\* checkpoint, and written no final file.
C7_ValidationBeforeGeneration ==
    Defective(cfg) =>
      /\ pc \in {"start", "aborted"}
      /\ pc = "aborted" => hist.error \in VALIDATION_ERRORS
      /\ calls = <<>>
      /\ ~hist.mkdir
      /\ hist.written = {}
      /\ disk.cache_dir = hist.start_disk.cache_dir
      /\ disk.ckpt = hist.start_disk.ckpt
      /\ ~hist.out_written
      /\ disk.out_file = hist.start_disk.out_file

\* C7 witness: a run over several chunks with an unsupported format, the last
\* check of all, aborted on an output directory that held nothing
C7_Witness ==
    /\ pc = "aborted"
    /\ hist.error = "bad_format"
    /\ cfg.nchunks >= 2
    /\ ~hist.start_disk.out_dir
    /\ disk.out_dir
    /\ ~disk.cache_dir

----------------------------------------------------------------------------
(* Specification SpecSplit: split_large_text on every small text and budget *)

SplitAlphabet == {"a", "b", LF}

Texts == SeqsUpTo(SplitAlphabet, MaxTextLen)

InitSplit ==
    /\ stage = "input"
    /\ inp \in [text : Texts, max_chars : 1..MaxBudget]
    /\ outp = <<>>
    /\ OrchIdle

ApplySplit ==
    /\ stage = "input"
    /\ outp' = split_large_text(inp.text, inp.max_chars)
    /\ stage' = "done"
    /\ UNCHANGED <<inp, ovars>>

NextSplit == ApplySplit

SpecSplit == InitSplit /\ [][NextSplit]_vars

----------------------------------------------------------------------------
(* Specification SpecPack: the packing loop of build_transcript_chunks on  *)
(* every short list of formatted units and every budget                    *)

\* formatted units of several lengths: whole files, and the two parts of a
\* file that was hard-split inside a line
UnitPool ==
    { FormatUnit(<<"f">>, 1, 1, <<"a">>),
      FormatUnit(<<"g">>, 1, 1, <<"a", "b", LF, "c", "d">>),
      FormatUnit(<<"h">>, 1, 2, <<"a", SP>>),
      FormatUnit(<<"h">>, 2, 2, <<SP, "b">>) }

InitPack ==
    /\ stage = "input"
    /\ inp \in [units : SeqsUpTo(UnitPool, MaxUnits), chunk_chars : 1..MaxChunkChars]
    /\ outp = <<>>
    /\ OrchIdle

ApplyPack ==
    /\ stage = "input"
    /\ outp' = pack_units(inp.units, inp.chunk_chars)
    /\ stage' = "done"
    /\ UNCHANGED <<inp, ovars>>

NextPack == ApplyPack

SpecPack == InitPack /\ [][NextPack]_vars

----------------------------------------------------------------------------
(* Claims about the packing loop (checked under SpecPack) *)

\* the ways of cutting n units into consecutive non-empty groups, each way
\* given as the sequence of its group sizes
RECURSIVE Groupings(_)
Groupings(n) ==
    IF n = 0 THEN {<<>>}
    ELSE UNION {{<<k>> \o g : g \in Groupings(n - k)} : k \in 1..n}

\* index of the first unit of group j
RECURSIVE GroupStart(_, _)
GroupStart(g, j) == IF j = 1 THEN 1 ELSE GroupStart(g, j - 1) + g[j - 1]

GroupUnits(units, g, j) == SubSeq(units, GroupStart(g, j), GroupStart(g, j) + g[j] - 1)

\* the chunks are the groups of g: chunk j is the concatenation of the units
\* of group j, trimmed
ChunksAre(cs, units, g) ==
    /\ Len(cs) = Len(g)
    /\ \A j \in 1..Len(g) : cs[j] = strip(join(GroupUnits(units, g, j)))

\* C10: every chunk that contains two or more units has length at most the
\* chunk budget; a chunk exceeds the budget only when it consists of exactly
\* one unit that is itself longer than the budget.
C10_MultiUnitChunkWithinBudget ==
    stage = "done" =>
        /\ \E g \in Groupings(Len(inp.units)) : ChunksAre(outp, inp.units, g)
        /\ \A g \in Groupings(Len(inp.units)) :
              ChunksAre(outp, inp.units, g) =>
                \A j \in 1..Len(g) :
                  /\ g[j] >= 2 => Len(outp[j]) <= inp.chunk_chars
                  /\ Len(outp[j]) > inp.chunk_chars =>
                        /\ g[j] = 1
                        /\ Len(GroupUnits(inp.units, g, j)[1]) > inp.chunk_chars

\* C10 witness: three units were packed into a chunk of two units that fills
\* the budget to within one unit, and a chunk of one unit
C10_Witness ==
    /\ stage = "done"
    /\ Len(inp.units) = 3
    /\ Len(outp) = 2
    /\ \E g \in Groupings(3) :
          /\ ChunksAre(outp, inp.units, g)
          /\ g = <<2, 1>>
          /\ Len(join(inp.units)) > inp.chunk_chars

\* C10 witness of the exception: a chunk of one unit that exceeds the budget
C10_WitnessOversized ==
    /\ stage = "done"
    /\ Len(inp.units) >= 2
    /\ \E j \in 1..Len(outp) : Len(outp[j]) > inp.chunk_chars

----------------------------------------------------------------------------
(* Claims about split_large_text (checked under SpecSplit) *)

\* every text obtainable from the pieces by joining each adjacent pair with
\* either the empty string or the paragraph separator
RECURSIVE AllJoins(_)
AllJoins(pieces) ==
    IF pieces = <<>> THEN {<<>>}
    ELSE IF Len(pieces) = 1 THEN {pieces[1]}
    ELSE {Head(pieces) \o sep \o rest :
            sep \in {<<>>, PARA_SEP}, rest \in AllJoins(Tail(pieces))}

NonEmpty(p) == p # <<>>

\* the paragraphs of the text that are not empty, in order
NonEmptyParas(text) == SelectSeq(SplitParas(text), NonEmpty)

RECURSIVE JoinParas(_)
JoinParas(paras) ==
    IF paras = <<>> THEN <<>>
    ELSE IF Len(paras) = 1 THEN paras[1]
    ELSE Head(paras) \o PARA_SEP \o JoinParas(Tail(paras))

\* the text with its empty paragraphs removed (runs of separators collapsed,
\* leading and trailing separators dropped)
WithoutEmptyParas(text) == JoinParas(NonEmptyParas(text))

\* C8 (as stated): for every text T and budget B >= 1 some choice of joiners
\* ("" or "\n\n") between adjacent pieces of split_large_text(T, B) gives back
\* T character for character.
C8_ReconstructsExactly ==
    stage = "done" => inp.text \in AllJoins(outp)

\* C8 (amended): when T fits the budget, or has no non-empty paragraph, the
\* single piece returned is T; otherwise some choice of joiners gives back T
\* with its empty paragraphs removed: every character of a non-empty
\* paragraph is kept once and in order, only separators are lost.
C8_ReconstructsUpToEmptyParas ==
    stage = "done" =>
        IF Len(inp.text) <= inp.max_chars \/ NonEmptyParas(inp.text) = <<>>
        THEN outp = <<inp.text>>
        ELSE WithoutEmptyParas(inp.text) \in AllJoins(outp)

\* C8 witness: a text over budget with an empty paragraph and an oversized
\* paragraph has been split into several pieces that no longer give back T
C8_Witness ==
    /\ stage = "done"
    /\ Len(outp) >= 3
    /\ \E i \in 1..Len(SplitParas(inp.text)) :
          Len(SplitParas(inp.text)[i]) > inp.max_chars
    /\ inp.text \notin AllJoins(outp)
    /\ WithoutEmptyParas(inp.text) \in AllJoins(outp)

\* C9 (as stated): for every text T and max_chars >= 1 every piece of
\* split_large_text(T, max_chars) has length at most max_chars, the final
\* fallback return included.
C9_EveryPieceBounded ==
    stage = "done" => \A i \in 1..Len(outp) : Len(outp[i]) <= inp.max_chars

\* C9 (amended): every piece has length at most max_chars whenever T has a
\* non-empty paragraph (as every trimmed non-empty text has); a longer T made
\* of paragraph separators only is returned whole by the fallback return.
C9_PieceBoundedUnlessOnlySeparators ==
    stage = "done" =>
        IF NonEmptyParas(inp.text) # <<>> \/ Len(inp.text) <= inp.max_chars
        THEN \A i \in 1..Len(outp) : Len(outp[i]) <= inp.max_chars
        ELSE outp = <<inp.text>>

\* C9 witness: an oversized paragraph has been hard-split next to another
\* paragraph, and every piece is within max_chars
C9_Witness ==
    /\ stage = "done"
    /\ Len(outp) >= 3
    /\ \E i \in 1..Len(SplitParas(inp.text)) :
          Len(SplitParas(inp.text)[i]) > inp.max_chars
    /\ Len(NonEmptyParas(inp.text)) >= 2
    /\ \A i \in 1..Len(outp) : Len(outp[i]) <= inp.max_chars

----------------------------------------------------------------------------
(* compute_run_hash *)

\* The byte stream fed to the hasher: every hasher.update call appends its
\* argument, with nothing between two arguments.  A file is a record
\* [path, size, mtime_ns] (the resolved path and the two stat fields).
RECURSIVE FileBytes(_)
FileBytes(files) ==
    IF files = <<>> THEN <<>>
    ELSE Head(files).path \o Str(Head(files).size) \o Str(Head(files).mtime_ns)
         \o FileBytes(Tail(files))

HashInput(a) ==
    a.module_name \o a.model \o Str(a.chunk_chars) \o a.format_name \o a.prompt_rules
        \o FileBytes(a.files)

\* sha256 taken as injective on its input byte stream: the digest is
\* represented by the byte stream itself
compute_run_hash(a) == HashInput(a)

----------------------------------------------------------------------------
(* Specification SpecHash: compute_run_hash on every pair of small inputs  *)

MaxIdLen     == 2   \* longest module name and model identifier
MaxHashFiles == 1   \* longest file list given to compute_run_hash

Ids == SeqsUpTo({"a"}, MaxIdLen) \ {<<>>}

FileStats ==
    { [path |-> <<"/", "p">>, size |-> 1, mtime_ns |-> 11],
      [path |-> <<"/", "p">>, size |-> 11, mtime_ns |-> 1] }

HashInputs ==
    [ module_name : Ids,
      model : Ids,
      chunk_chars : {20000, 120000},
      format_name : {<<"m", "d">>, <<"t", "e", "x">>},
      prompt_rules : {<<>>, <<"r">>},
      files : SeqsUpTo(FileStats, MaxHashFiles) ]

InitHash ==
    /\ stage = "input"
    /\ inp \in [a : HashInputs, b : HashInputs]
    /\ outp = <<>>
    /\ OrchIdle

ApplyHash ==
    /\ stage = "input"
    /\ outp' = [a |-> compute_run_hash(inp.a), b |-> compute_run_hash(inp.b)]
    /\ stage' = "done"
    /\ UNCHANGED <<inp, ovars>>

NextHash == ApplyHash

SpecHash == InitHash /\ [][NextHash]_vars

\* C11: with an injective hash, two calls of compute_run_hash return the same
\* fingerprint if and only if they agree on every input: module name, model
\* identifier, chunk size, output format, prompt rules and the ordered
\* per-file (path, size, modification time) triples.
C11_FingerprintIffSameInputs ==
    stage = "done" => (outp.a = outp.b <=> inp.a = inp.b)

----------------------------------------------------------------------------
(* sort_key and list_transcripts *)

DIGITS == {"0", "1", "2", "3", "4", "5", "6", "7", "8", "9"}

IsDigit(c) == c \in DIGITS

DigitVal(c) == CHOOSE d \in 0..9 : Digit(d) = c

\* int(x) for a string of decimal digits
RECURSIVE ParseInt(_)
ParseInt(s) ==
    IF s = <<>> THEN 0
    ELSE ParseInt(SubSeq(s, 1, Len(s) - 1)) * 10 + DigitVal(s[Len(s)])

\* Path.stem: the name without its last suffix (a leading or a final dot
\* starts no suffix)
stem(name) ==
    LET dots == {i \in 1..Len(name) : name[i] = "."}
    IN  IF dots = {} THEN name
        ELSE LET i == CHOOSE d \in dots : \A e \in dots : e <= d
             IN  IF 1 < i /\ i < Len(name) THEN SubSeq(name, 1, i - 1) ELSE name

\* index of the last character of the run of digits that starts at p
RECURSIVE RunEnd(_, _)
RunEnd(s, p) ==
    IF p < Len(s) /\ IsDigit(s[p + 1]) THEN RunEnd(s, p + 1) ELSE p

\* the optional group (?:\.(\d+))? tried after position e: the end of the
\* match and the group's text (the empty text when the group took no part)
OptGroup(s, e) ==
    IF e + 2 <= Len(s) /\ s[e + 1] = "." /\ IsDigit(s[e + 2])
    THEN [end |-> RunEnd(s, e + 2), text |-> SubSeq(s, e + 2, RunEnd(s, e + 2))]
    ELSE [end |-> e, text |-> <<>>]

\* NUM.search(s).groups() for NUM = (\d+)(?:\.(\d+))?(?:\.(\d+))? : the
\* leftmost match, every \d+ greedy; <<>> when s has no digit
NumSearch(s) ==
    LET ds == {i \in 1..Len(s) : IsDigit(s[i])}
    IN  IF ds = {} THEN <<>>
        ELSE LET p  == CHOOSE d \in ds : \A e \in ds : d <= e
                 e1 == RunEnd(s, p)
                 g2 == OptGroup(s, e1)
                 g3 == OptGroup(s, g2.end)
             IN  <<SubSeq(s, p, e1), g2.text, g3.text>>

\* tuple(int(x) if x else -1 for x in m.groups())
Parts(groups) ==
    [i \in 1..Len(groups) |-> IF groups[i] # <<>> THEN ParseInt(groups[i]) ELSE -1]

\* faulty variant of sort_key: the numeric pattern is ignored, files sort by time and name
sort_key_noPattern(p) ==
    [cls |-> 1, parts |-> <<>>, mtime |-> p.mtime, name |-> lower(p.name)]

\* sort_key(p) for a file p = [name, mtime]: the tuple (0, parts, name.lower())
\* or (1, st_mtime, name.lower())
sort_key(p) ==
    LET m == NumSearch(stem(p.name))
    IN  IF m # <<>>
        THEN [cls |-> 0, parts |-> Parts(m), mtime |-> 0, name |-> lower(p.name)]
        ELSE [cls |-> 1, parts |-> <<>>, mtime |-> p.mtime, name |-> lower(p.name)]

\* ord(c) of the characters file names are made of
CodePoint(c) ==
    CASE c = "." -> 46
      [] IsDigit(c) -> 48 + DigitVal(c)
      [] \E j \in 1..26 : UPPER[j] = c -> 64 + (CHOOSE j \in 1..26 : UPPER[j] = c)
      [] \E j \in 1..26 : LOWER[j] = c -> 96 + (CHOOSE j \in 1..26 : LOWER[j] = c)

\* a < b for two tuples of integers, or two strings given by their code points
RECURSIVE TupleLess(_, _)
TupleLess(a, b) ==
    IF b = <<>> THEN FALSE
    ELSE IF a = <<>> THEN TRUE
    ELSE IF Head(a) # Head(b) THEN Head(a) < Head(b)
    ELSE TupleLess(Tail(a), Tail(b))

StrLess(a, b) ==
    TupleLess([i \in 1..Len(a) |-> CodePoint(a[i])], [i \in 1..Len(b) |-> CodePoint(b[i])])

\* ka < kb for two sort keys, as Python compares the tuples
KeyLess(ka, kb) ==
    IF ka.cls # kb.cls THEN ka.cls < kb.cls
    ELSE IF ka.cls = 0 /\ ka.parts # kb.parts THEN TupleLess(ka.parts, kb.parts)
    ELSE IF ka.cls = 1 /\ ka.mtime # kb.mtime THEN ka.mtime < kb.mtime
    ELSE StrLess(ka.name, kb.name)

\* list.sort is stable: f goes before the first element with a greater key
RECURSIVE InsertByKey(_, _)
InsertByKey(sorted, f) ==
    IF sorted = <<>> THEN <<f>>
    ELSE IF KeyLess(sort_key(f), sort_key(Head(sorted))) THEN <<f>> \o sorted
    ELSE <<Head(sorted)>> \o InsertByKey(Tail(sorted), f)

RECURSIVE SortFrom(_, _)
SortFrom(sorted, files) ==
    IF files = <<>> THEN sorted
    ELSE SortFrom(InsertByKey(sorted, Head(files)), Tail(files))

\* list_transcripts on the supported files found by rglob: files.sort(key=sort_key)
list_transcripts(files) == SortFrom(<<>>, files)

----------------------------------------------------------------------------
(* Specification SpecSort: list_transcripts on every pair of files with a  *)
(* short name, and on the files 2.md, 10.md, 2.1.md in every order         *)

MaxStemLen == 3    \* longest base name (before ".md") of a file in a pair

StemAlphabet == {"1", "2", ".", "a"}

MD_EXT == <<".", "m", "d">>

HasDigit(s) == \E i \in 1..Len(s) : IsDigit(s[i])

\* the modification time is read only for a name without a digit
SortFiles ==
    { [name |-> b \o MD_EXT, mtime |-> t] :
        b \in SeqsUpTo(StemAlphabet, MaxStemLen) \ {<<>>}, t \in {1, 2} }

FilePool == {f \in SortFiles : HasDigit(f.name) => f.mtime = 1}

F_2   == [name |-> <<"2">> \o MD_EXT, mtime |-> 1]
F_10  == [name |-> <<"1", "0">> \o MD_EXT, mtime |-> 1]
F_2_1 == [name |-> <<"2", ".", "1">> \o MD_EXT, mtime |-> 1]

ExampleOrders ==
    { <<a, b, c>> : a \in {F_2, F_10, F_2_1}, b \in {F_2, F_10, F_2_1},
                    c \in {F_2, F_10, F_2_1} }

InitSort ==
    /\ stage = "input"
    /\ inp \in [files : {<<f, g>> : f \in FilePool, g \in FilePool}
                        \cup {o \in ExampleOrders : o[1] # o[2] /\ o[2] # o[3] /\ o[1] # o[3]}]
    /\ outp = <<>>
    /\ OrchIdle

ApplySort ==
    /\ stage = "input"
    /\ outp' = list_transcripts(inp.files)
    /\ stage' = "done"
    /\ UNCHANGED <<inp, ovars>>

NextSort == ApplySort

SpecSort == InitSort /\ [][NextSort]_vars

----------------------------------------------------------------------------
(* Claims about sort_key (checked under SpecSort) *)

\* the base name: the file name without its extension ".md"
BaseName(f) == SubSeq(f.name, 1, Len(f.name) - 3)

\* the integer triple of the first numeric pattern of a base name that has
\* one, missing groups counted as -1
Triple(f) == Parts(NumSearch(BaseName(f)))

\* a <= b for integer triples, compared numerically position by position
TripleLeq(a, b) ==
    \/ a[1] < b[1]
    \/ a[1] = b[1] /\ a[2] < b[2]
    \/ a[1] = b[1] /\ a[2] = b[2] /\ a[3] <= b[3]

IsPermutation(a, b) ==
    /\ Len(a) = Len(b)
    /\ \E p \in [1..Len(a) -> 1..Len(a)] :
          /\ \A i, j \in 1..Len(a) : i # j => p[i] # p[j]
          /\ \A i \in 1..Len(a) : b[i] = a[p[i]]

\* C12: the sorted list holds the same files; files with a numeric pattern in
\* the base name come in ascending order of the integer triple of the first
\* match (missing groups -1), compared as integers; every file with a numeric
\* pattern comes before every file with none; and 2.md, 10.md, 2.1.md given in
\* any order come out as 2.md, 2.1.md, 10.md.
C12_NumericOrder ==
    stage = "done" =>
        /\ IsPermutation(inp.files, outp)
        /\ \A i, j \in 1..Len(outp) :
              i < j =>
                /\ HasDigit(BaseName(outp[i])) /\ HasDigit(BaseName(outp[j])) =>
                      TripleLeq(Triple(outp[i]), Triple(outp[j]))
                /\ HasDigit(BaseName(outp[j])) => HasDigit(BaseName(outp[i]))
        /\ inp.files \in ExampleOrders => outp = <<F_2, F_2_1, F_10>>

\* C12 witness: 10.md was given before 2.1.md and 2.md and came out last
C12_Witness ==
    /\ stage = "done"
    /\ inp.files = <<F_10, F_2_1, F_2>>
    /\ outp = <<F_2, F_2_1, F_10>>

\* C12 witness: a name whose number is larger but whose text is smaller
\* ("12" against "2"), and a name without a number, were put in order
C12_WitnessPair ==
    /\ stage = "done"
    /\ Len(inp.files) = 2
    /\ outp # inp.files
    /\ \/ /\ Triple(outp[1]) = <<2, -1, -1>> /\ Triple(outp[2]) = <<12, -1, -1>>
       \/ /\ HasDigit(BaseName(outp[1])) /\ ~HasDigit(BaseName(outp[2]))

----------------------------------------------------------------------------
(* write_docx_from_markdown *)

\* str.splitlines(): lines end at "\n", "\r\n" or "\r"; no empty last line
RECURSIVE splitlines(_)
splitlines(s) ==
    LET ends == {i \in 1..Len(s) : s[i] \in {LF, CR}}
    IN  IF ends = {} THEN (IF s = <<>> THEN <<>> ELSE <<s>>)
        ELSE LET i == CHOOSE e \in ends : \A f \in ends : e <= f
                 n == IF s[i] = CR /\ i < Len(s) /\ s[i + 1] = LF THEN i + 2 ELSE i + 1
             IN  <<SubSeq(s, 1, i - 1)>> \o splitlines(SubSeq(s, n, Len(s)))

startswith(s, prefix) ==
    Len(s) >= Len(prefix) /\ SubSeq(s, 1, Len(prefix)) = prefix

\* s[n:]
From(s, n) == SubSeq(s, n + 1, Len(s))

\* re.match(r"^\s*\d+\.\s+(.*)$", line): whether it matches, and group(1)
NumberedMatch(line) ==
    LET t == lstrip(line)
        e == IF t # <<>> /\ IsDigit(t[1]) THEN RunEnd(t, 1) ELSE 0
        r == From(t, e + 1)
    IN  IF e > 0 /\ Len(t) >= e + 2 /\ t[e + 1] = "." /\ IsSpace(t[e + 2])
        THEN [ok |-> TRUE, item |-> lstrip(r)]
        ELSE [ok |-> FALSE, item |-> <<>>]

\* the python-docx calls: doc.add_heading(text, level=n) and
\* doc.add_paragraph(text, style=s)
Heading(n, text) == [fn |-> "add_heading", level |-> n, style |-> "", text |-> text]
Paragraph(text, style) == [fn |-> "add_paragraph", level |-> 0, style |-> style, text |-> text]

\* the node added for one raw line, by the first test of the loop body that
\* succeeds
DocxNode(raw_line) ==
    LET line == rstrip(raw_line)
    IN  IF strip(line) = <<>> THEN Paragraph(<<>>, "")
        ELSE IF startswith(line, <<"#", SP>>) THEN Heading(1, strip(From(line, 2)))
        ELSE IF startswith(line, <<"#", "#", SP>>) THEN Heading(2, strip(From(line, 3)))
        ELSE IF startswith(line, <<"#", "#", "#", SP>>) THEN Heading(3, strip(From(line, 4)))
        ELSE IF startswith(line, <<"#", "#", "#", "#", SP>>)
             THEN Heading(4, strip(From(line, 5)))
        ELSE IF startswith(lstrip(line), <<"-", SP>>)
             THEN Paragraph(strip(From(lstrip(line), 2)), "List Bullet")
        ELSE IF NumberedMatch(line).ok
             THEN Paragraph(strip(NumberedMatch(line).item), "List Number")
        ELSE IF startswith(line, <<">", SP>>)
             THEN Paragraph(strip(From(line, 2)), "Intense Quote")
        ELSE Paragraph(line, "")

\* faulty variant of DocxIter: a blank line adds no node
DocxIter_skipBlank(nodes, raw_line) ==
    IF strip(raw_line) = <<>> THEN nodes ELSE Append(nodes, DocxNode(raw_line))

\* one iteration of `for raw_line in md_text.splitlines()` on the document
DocxIter(nodes, raw_line) == Append(nodes, DocxNode(raw_line))

----------------------------------------------------------------------------
(* Specification SpecDocx: write_docx_from_markdown, line by line, on every *)
(* short text, on short documents of typical lines, and on the example     *)

MaxDocLen   == 4    \* longest text taken character by character
MaxPoolLines == 2   \* longest document made of lines of the pool

MdAlphabet == {"#", SP, "-", "1", ".", ">", "a", LF, CR}

PoolLines ==
    { <<>>,
      <<SP, SP>>,
      <<"#", SP, "T", SP>>,
      <<"#", "#", SP, "t">>,
      <<"#", "#", "#", SP, "t">>,
      <<"#", "#", "#", "#", SP, "t">>,
      <<"#", "#", "#", "#", "#", SP, "t">>,
      <<SP, "#", SP, "t">>,
      <<"-", SP, "a">>,
      <<SP, SP, "-", SP, SP, "b", SP>>,
      <<"-", "a">>,
      <<"1", ".", SP, "x">>,
      <<SP, "1", "2", ".", SP, SP, "y">>,
      <<"1", ".", "x">>,
      <<">", SP, "q">>,
      <<SP, ">", SP, "q">>,
      <<"p", "a", "r", "a">>,
      <<SP, "p", SP>> }

\* "\n".join(lines)
RECURSIVE JoinLines(_)
JoinLines(lines) ==
    IF lines = <<>> THEN <<>>
    ELSE IF Len(lines) = 1 THEN lines[1]
    ELSE Head(lines) \o <<LF>> \o JoinLines(Tail(lines))

\* "# Title\n\n- a\n- b\n1. x\n> q\npara"
ExampleLines ==
    << <<"#", SP, "T", "i", "t", "l", "e">>, <<>>, <<"-", SP, "a">>, <<"-", SP, "b">>,
       <<"1", ".", SP, "x">>, <<">", SP, "q">>, <<"p", "a", "r", "a">> >>

ExampleText == JoinLines(ExampleLines)

MdTexts ==
    SeqsUpTo(MdAlphabet, MaxDocLen)
    \cup {JoinLines(d) : d \in SeqsUpTo(PoolLines, MaxPoolLines)}
    \cup {ExampleText}

InitDocx ==
    /\ stage = "input"
    /\ inp \in [md_text : MdTexts]
    /\ outp = <<>>
    /\ OrchIdle

\* doc = Document(); md_text.splitlines()
DocxOpen ==
    /\ stage = "input"
    /\ outp' = [nodes |-> <<>>, todo |-> splitlines(inp.md_text), saved |-> FALSE]
    /\ stage' = "lines"
    /\ UNCHANGED <<inp, ovars>>

\* the loop body on the next line
DocxLine ==
    /\ stage = "lines"
    /\ outp.todo # <<>>
    /\ outp' = [outp EXCEPT !.nodes = DocxIter(outp.nodes, Head(outp.todo)),
                            !.todo = Tail(outp.todo)]
    /\ UNCHANGED <<stage, inp, ovars>>

\* doc.save(str(docx_path))
DocxSave ==
    /\ stage = "lines"
    /\ outp.todo = <<>>
    /\ outp' = [outp EXCEPT !.saved = TRUE]
    /\ stage' = "done"
    /\ UNCHANGED <<inp, ovars>>

NextDocx ==
    \/ DocxOpen
    \/ DocxLine
    \/ DocxSave

SpecDocx == InitDocx /\ [][NextDocx]_vars

----------------------------------------------------------------------------
(* Claims about the structured-document renderer (checked under SpecDocx) *)

\* the forms of a line (trailing whitespace aside), in priority order
LineForms == <<"blank", "h1", "h2", "h3", "h4", "bullet", "numbered", "quote", "plain">>

HasForm(raw, form) ==
    LET l == rstrip(raw)
    IN  CASE form = "blank"    -> \A i \in 1..Len(l) : IsSpace(l[i])
          [] form = "h1"       -> startswith(l, <<"#", SP>>)
          [] form = "h2"       -> startswith(l, <<"#", "#", SP>>)
          [] form = "h3"       -> startswith(l, <<"#", "#", "#", SP>>)
          [] form = "h4"       -> startswith(l, <<"#", "#", "#", "#", SP>>)
          [] form = "bullet"   -> startswith(lstrip(l), <<"-", SP>>)
          [] form = "numbered" -> NumberedMatch(l).ok
          [] form = "quote"    -> startswith(l, <<">", SP>>)
          [] form = "plain"    -> TRUE

\* the first form of the priority order that the line has
FirstForm(raw) ==
    LineForms[CHOOSE i \in 1..Len(LineForms) :
                 /\ HasForm(raw, LineForms[i])
                 /\ \A j \in 1..(i - 1) : ~HasForm(raw, LineForms[j])]

\* the kind of a node: blank, heading of a level, bullet, numbered, quote, paragraph
NodeKind(n) ==
    IF n.fn = "add_heading" THEN <<"h", "1", "2", "3", "4">>[n.level + 1]
    ELSE IF n.style = "List Bullet" THEN "bullet"
    ELSE IF n.style = "List Number" THEN "numbered"
    ELSE IF n.style = "Intense Quote" THEN "quote"
    ELSE IF n.text = <<>> THEN "blank"
    ELSE "plain"

KindOfForm(form) ==
    CASE form = "h1" -> "1" [] form = "h2" -> "2" [] form = "h3" -> "3"
      [] form = "h4" -> "4" [] OTHER -> form

ExampleNodes ==
    << Heading(1, <<"T", "i", "t", "l", "e">>),
       Paragraph(<<>>, ""),
       Paragraph(<<"a">>, "List Bullet"),
       Paragraph(<<"b">>, "List Bullet"),
       Paragraph(<<"x">>, "List Number"),
       Paragraph(<<"q">>, "Intense Quote"),
       Paragraph(<<"p", "a", "r", "a">>, "") >>

\* C13: after k lines were processed the document holds k nodes, the i-th
\* node having the kind of the first form of the priority order that the
\* i-th line has; and the seven-line example text yields heading(1,'Title'),
\* blank, bullet('a'), bullet('b'), numbered('x'), quote('q'), paragraph('para').
C13_OneNodePerLine ==
    stage \in {"lines", "done"} =>
        LET lines == splitlines(inp.md_text)
        IN  /\ Len(outp.nodes) + Len(outp.todo) = Len(lines)
            /\ \A i \in 1..Len(outp.nodes) :
                  NodeKind(outp.nodes[i]) = KindOfForm(FirstForm(lines[i]))
            /\ stage = "done" =>
                  /\ Len(outp.nodes) = Len(lines)
                  /\ inp.md_text = ExampleText =>
                        lines = ExampleLines /\ outp.nodes = ExampleNodes

\* C13 witness: the example text has been rendered to its seven nodes
C13_Witness ==
    /\ stage = "done"
    /\ inp.md_text = ExampleText
    /\ Len(outp.nodes) = 7
    /\ NodeKind(outp.nodes[2]) = "blank"
    /\ NodeKind(outp.nodes[7]) = "plain"

----------------------------------------------------------------------------
(* escape_latex, apply_emphasis, convert_inline_md *)

BACKSLASH == "\\"
STAR == "*"
\* U+0060, the grave accent: a TLA+ string cannot hold it, so the character is
\* written as this token
BACKTICK == "<backtick>"

\* the dict `replacements`, in the order of its items
REPLACEMENTS ==
    << [k |-> BACKSLASH, v |-> <<BACKSLASH,"t","e","x","t","b","a","c","k","s","l","a","s","h","{","}">>],
       [k |-> "&", v |-> <<BACKSLASH,"&">>],
       [k |-> "%", v |-> <<BACKSLASH,"%">>],
       [k |-> "$", v |-> <<BACKSLASH,"$">>],
       [k |-> "#", v |-> <<BACKSLASH,"#">>],
       [k |-> "_", v |-> <<BACKSLASH,"_">>],
       [k |-> "{", v |-> <<BACKSLASH,"{">>],
       [k |-> "}", v |-> <<BACKSLASH,"}">>],
       [k |-> "~", v |-> <<BACKSLASH,"t","e","x","t","a","s","c","i","i","t","i","l","d","e","{","}">>],
       [k |-> "^", v |-> <<BACKSLASH,"t","e","x","t","a","s","c","i","i","c","i","r","c","u","m","{","}">>] >>

\* out.replace(k, v) for a one-character k
RECURSIVE Replace(_, _, _)
Replace(s, k, v) ==
    IF s = <<>> THEN <<>>
    ELSE (IF Head(s) = k THEN v ELSE <<Head(s)>>) \o Replace(Tail(s), k, v)

\* for k, v in replacements.items(): out = out.replace(k, v), from item i on
RECURSIVE ReplaceFrom(_, _)
ReplaceFrom(out, i) ==
    IF i > Len(REPLACEMENTS) THEN out
    ELSE ReplaceFrom(Replace(out, REPLACEMENTS[i].k, REPLACEMENTS[i].v), i + 1)

escape_latex(text) == ReplaceFrom(text, 1)

TEXTBF == <<BACKSLASH,"t","e","x","t","b","f","{">>
TEXTIT == <<BACKSLASH,"t","e","x","t","i","t","{">>
TEXTTT == <<BACKSLASH,"t","e","x","t","t","t","{">>

\* positions q >= lo where the closing delimiter (`width` stars) starts and
\* the group before it, text[from..q-1], holds no newline
Closers(text, from, lo, width) ==
    { q \in lo..(Len(text) - width + 1) :
        /\ \A i \in q..(q + width - 1) : text[i] = STAR
        /\ \A i \in from..(q - 1) : text[i] # LF }

\* pattern.match at position p for \*\*(.+?)\*\*|\*(.+?)\* : the first
\* alternative that matches, its lazy group taking as few characters as a
\* match allows
EmphasisAt(text, p) ==
    LET two == p + 1 <= Len(text) /\ text[p] = STAR /\ text[p + 1] = STAR
        c2  == IF two THEN Closers(text, p + 2, p + 3, 2) ELSE {}
        c1  == IF p <= Len(text) /\ text[p] = STAR
               THEN Closers(text, p + 1, p + 2, 1) ELSE {}
    IN  IF c2 # {}
        THEN LET q == CHOOSE x \in c2 : \A y \in c2 : x <= y
             IN  [ok |-> TRUE, bold |-> TRUE, group |-> SubSeq(text, p + 2, q - 1),
                  end |-> q + 1]
        ELSE IF c1 # {}
        THEN LET q == CHOOSE x \in c1 : \A y \in c1 : x <= y
             IN  [ok |-> TRUE, bold |-> FALSE, group |-> SubSeq(text, p + 1, q - 1),
                  end |-> q]
        ELSE [ok |-> FALSE, bold |-> FALSE, group |-> <<>>, end |-> 0]

\* the loop over pattern.finditer(text), from the character after `last`
RECURSIVE EmphasisFrom(_, _)
EmphasisFrom(text, last) ==
    LET starts == {p \in (last + 1)..Len(text) : EmphasisAt(text, p).ok}
    IN  IF starts = {} THEN escape_latex(SubSeq(text, last + 1, Len(text)))
        ELSE LET p == CHOOSE x \in starts : \A y \in starts : x <= y
                 m == EmphasisAt(text, p)
             IN  escape_latex(SubSeq(text, last + 1, p - 1))
                 \o (IF m.bold THEN TEXTBF ELSE TEXTIT) \o escape_latex(m.group) \o <<"}">>
                 \o EmphasisFrom(text, m.end)

apply_emphasis(text) == EmphasisFrom(text, 0)

\* text.split("`")
RECURSIVE SplitTicks(_)
SplitTicks(text) ==
    LET ticks == {i \in 1..Len(text) : text[i] = BACKTICK}
    IN  IF ticks = {} THEN <<text>>
        ELSE LET i == CHOOSE t \in ticks : \A u \in ticks : t <= u
             IN  <<SubSeq(text, 1, i - 1)>> \o SplitTicks(SubSeq(text, i + 1, Len(text)))

\* if len(parts) % 2 == 0: the last two parts are joined again by a backtick
PairedParts(parts) ==
    IF Len(parts) % 2 = 0
    THEN SubSeq(parts, 1, Len(parts) - 2)
         \o <<parts[Len(parts) - 1] \o <<BACKTICK>> \o parts[Len(parts)]>>
    ELSE parts

\* faulty variant of InlinePart: the content of a code span is emphasis-converted too
InlinePart_emphasisInCode(i, part) ==
    IF i % 2 = 1 THEN TEXTTT \o apply_emphasis(part) \o <<"}">>
    ELSE apply_emphasis(part)

\* the loop body for part i (0-based) of the parts
InlinePart(i, part) ==
    IF i % 2 = 1 THEN TEXTTT \o escape_latex(part) \o <<"}">>
    ELSE apply_emphasis(part)

convert_inline_md(text) ==
    LET parts == SplitTicks(text)
    IN  IF Len(parts) = 1 THEN apply_emphasis(text)
        ELSE LET pp == PairedParts(parts)
             IN  join([i \in 1..Len(pp) |-> InlinePart(i - 1, pp[i])])

----------------------------------------------------------------------------
(* write_latex_from_markdown *)

ITEMIZE   == <<"i","t","e","m","i","z","e">>
ENUMERATE == <<"e","n","u","m","e","r","a","t","e">>
QUOTE     == <<"q","u","o","t","e">>
VERBATIM  == <<"v","e","r","b","a","t","i","m">>
DOCUMENT  == <<"d","o","c","u","m","e","n","t">>

\* r"\begin{" + env + r"}" and r"\end{" + env + r"}"
BeginCmd(env) == <<BACKSLASH,"b","e","g","i","n","{">> \o env \o <<"}">>
EndCmd(env)   == <<BACKSLASH,"e","n","d","{">> \o env \o <<"}">>

ITEM_SP == <<BACKSLASH,"i","t","e","m"," ">>
FENCE   == <<BACKTICK, BACKTICK, BACKTICK>>

\* the lines appended before the loop, for a document title
Preamble(title) ==
    << <<BACKSLASH,"d","o","c","u","m","e","n","t","c","l","a","s","s","[","1","1","p","t","]",
         "{","a","r","t","i","c","l","e","}">>,
       <<BACKSLASH,"u","s","e","p","a","c","k","a","g","e","[","u","t","f","8","]","{","i","n",
         "p","u","t","e","n","c","}">>,
       <<BACKSLASH,"u","s","e","p","a","c","k","a","g","e","[","T","1","]","{","f","o","n","t",
         "e","n","c","}">>,
       <<BACKSLASH,"u","s","e","p","a","c","k","a","g","e","{","l","m","o","d","e","r","n","}">>,
       <<BACKSLASH,"u","s","e","p","a","c","k","a","g","e","{","g","e","o","m","e","t","r","y",
         "}">>,
       <<BACKSLASH,"u","s","e","p","a","c","k","a","g","e","{","h","y","p","e","r","r","e","f",
         "}">>,
       <<BACKSLASH,"u","s","e","p","a","c","k","a","g","e","{","e","n","u","m","i","t","e","m",
         "}">>,
       <<BACKSLASH,"u","s","e","p","a","c","k","a","g","e","{","p","a","r","s","k","i","p","}">>,
       <<BACKSLASH,"g","e","o","m","e","t","r","y","{","m","a","r","g","i","n","=","1","i","n",
         "}">>,
       <<BACKSLASH,"s","e","t","l","i","s","t","{","n","o","i","t","e","m","s","e","p","}">> >>
    \o << <<BACKSLASH,"t","i","t","l","e","{">> \o escape_latex(title) \o <<"}">> >>
    \o << <<BACKSLASH,"d","a","t","e","{","}">>,
       <<BACKSLASH,"b","e","g","i","n","{","d","o","c","u","m","e","n","t","}">>,
       <<BACKSLASH,"m","a","k","e","t","i","t","l","e">>,
       <<BACKSLASH,"t","a","b","l","e","o","f","c","o","n","t","e","n","t","s">>,
       <<>> >>

\* the renderer's state st = [out, in_code, in_quote, list_mode]; list_mode is
\* the environment name of the open list, or the empty string for None
close_list(st) ==
    IF st.list_mode # <<>>
    THEN [st EXCEPT !.out = Append(@, EndCmd(st.list_mode)), !.list_mode = <<>>]
    ELSE st

close_quote(st) ==
    IF st.in_quote
    THEN [st EXCEPT !.out = Append(@, EndCmd(QUOTE)), !.in_quote = FALSE]
    ELSE st

Emit(st, line) == [st EXCEPT !.out = Append(@, line)]

\* a sectioning line: close_list(), close_quote(), then the command
Section(st, cmd, title) ==
    Emit(close_quote(close_list(st)), <<BACKSLASH>> \o cmd \o <<"{">> \o convert_inline_md(title) \o <<"}">>)

\* if list_mode != env: close_list(); out.append(begin); list_mode = env;
\* then the item
ListItem(st, env, item) ==
    LET opened == IF st.list_mode # env
                  THEN [Emit(close_list(st), BeginCmd(env)) EXCEPT !.list_mode = env]
                  ELSE st
    IN  Emit(opened, ITEM_SP \o convert_inline_md(item))

\* faulty variant of FenceLine: a fence line inside a fenced block opens another one
FenceLine_nested(st) ==
    [Emit(close_quote(close_list(st)), BeginCmd(VERBATIM)) EXCEPT !.in_code = TRUE]

\* a fence line: close_list(), close_quote(), then verbatim is opened or closed
FenceLine(st) ==
    LET c == close_quote(close_list(st))
    IN  IF ~c.in_code
        THEN [Emit(c, BeginCmd(VERBATIM)) EXCEPT !.in_code = TRUE]
        ELSE [Emit(c, EndCmd(VERBATIM)) EXCEPT !.in_code = FALSE]

\* faulty variant of QuoteLine: every quote line opens a quote environment
QuoteLine_reopen(st, line) ==
    LET c == close_list(st)
    IN  Emit([Emit(c, BeginCmd(QUOTE)) EXCEPT !.in_quote = TRUE],
             convert_inline_md(strip(From(line, 2))))

\* faulty variant of QuoteLine: a quote line leaves an open list open
QuoteLine_keepList(st, line) ==
    LET q == IF ~st.in_quote THEN [Emit(st, BeginCmd(QUOTE)) EXCEPT !.in_quote = TRUE] ELSE st
    IN  Emit(q, convert_inline_md(strip(From(line, 2))))

\* a line that starts with "> "
QuoteLine(st, line) ==
    LET c == close_list(st)
        q == IF ~c.in_quote THEN [Emit(c, BeginCmd(QUOTE)) EXCEPT !.in_quote = TRUE] ELSE c
    IN  Emit(q, convert_inline_md(strip(From(line, 2))))

\* the rest of the loop body, reached by a line that is no fence, is outside a
\* fenced block, is not blank, no heading and no quote line: an open quote is
\* closed, then bullet, numbered or plain text
AfterQuote(st, line) ==
    LET c == close_quote(st)
    IN  IF startswith(lstrip(line), <<"-", SP>>)
        THEN ListItem(c, ITEMIZE, strip(From(lstrip(line), 2)))
        ELSE IF NumberedMatch(line).ok
        THEN ListItem(c, ENUMERATE, strip(NumberedMatch(line).item))
        ELSE Emit(close_list(c), convert_inline_md(line))

\* faulty variant of CodeLine: a line of a fenced block is escaped
CodeLine_escaped(st, line) == Emit(st, escape_latex(line))

\* if in_code: out.append(line)
CodeLine(st, line) == Emit(st, line)

\* one iteration of `for raw_line in lines` (line = raw_line.rstrip("\n") is
\* raw_line, a line of splitlines() holding no line end)
LatexIter(st, line) ==
    IF startswith(strip(line), FENCE) THEN FenceLine(st)
    ELSE IF st.in_code THEN CodeLine(st, line)
    ELSE IF strip(line) = <<>> THEN Emit(close_quote(close_list(st)), <<>>)
    ELSE IF startswith(line, <<"#", SP>>)
         THEN Section(st, <<"s","e","c","t","i","o","n">>, strip(From(line, 2)))
    ELSE IF startswith(line, <<"#", "#", SP>>)
         THEN Section(st, <<"s","u","b","s","e","c","t","i","o","n">>, strip(From(line, 3)))
    ELSE IF startswith(line, <<"#", "#", "#", SP>>)
         THEN Section(st, <<"s","u","b","s","u","b","s","e","c","t","i","o",
         "n">>, strip(From(line, 4)))
    ELSE IF startswith(line, <<"#", "#", "#", "#", SP>>)
         THEN Section(st, <<"p","a","r","a","g","r","a","p","h">>, strip(From(line, 5)))
    ELSE IF startswith(line, <<">", SP>>) THEN QuoteLine(st, line)
    ELSE AfterQuote(st, line)

\* after the loop: close_list(), close_quote(), an open verbatim is ended,
\* then the document end marker
LatexFinish(st) ==
    LET c == close_quote(close_list(st))
        v == IF c.in_code THEN Emit(c, EndCmd(VERBATIM)) ELSE c
    IN  Emit(v, EndCmd(DOCUMENT))

----------------------------------------------------------------------------
(* Specification SpecLatex: write_latex_from_markdown, line by line, on     *)
(* every short document made of lines of each kind                         *)

MaxTexLines == 4    \* longest document given to the renderer

\* a fence, a blank line, a heading with a reserved character, a bullet, a
\* numbered item, a quote, and plain text that reads as a command
TexLines ==
    { FENCE,
      <<>>,
      <<"#", SP, "_">>,
      <<"-", SP, "a">>,
      <<"1", ".", SP, "x">>,
      <<">", SP, "q">>,
      EndCmd(VERBATIM) }

TexTexts == {JoinLines(d) : d \in SeqsUpTo(TexLines, MaxTexLines)}

TexTitle == <<"m", "_", "1">>

\* the three block states of the renderer
Flags(st) == [in_code |-> st.in_code, in_quote |-> st.in_quote, list_mode |-> st.list_mode]

InitLatex ==
    /\ stage = "input"
    /\ inp \in [md_text : TexTexts, title : {TexTitle}]
    /\ outp = <<>>
    /\ OrchIdle

\* lines = md_text.splitlines(), the preamble, and the initial block states
LatexOpen ==
    /\ stage = "input"
    /\ outp' = [st |-> [out |-> Preamble(inp.title), in_code |-> FALSE,
                        in_quote |-> FALSE, list_mode |-> <<>>],
                todo |-> splitlines(inp.md_text),
                log |-> <<>>,      \* per processed line: the line, the block
                                   \* states before and after, the lines emitted
                tex |-> <<>>]      \* the text written to tex_path
    /\ stage' = "lines"
    /\ UNCHANGED <<inp, ovars>>

\* the loop body on the next line
LatexLine ==
    /\ stage = "lines"
    /\ outp.todo # <<>>
    /\ \E line \in {Head(outp.todo)} : \E next \in {LatexIter(outp.st, line)} :
           outp' = [outp EXCEPT
                      !.st = next,
                      !.todo = Tail(outp.todo),
                      !.log = Append(@, [line |-> line,
                                         before |-> Flags(outp.st),
                                         after |-> Flags(next),
                                         emitted |-> SubSeq(next.out, Len(outp.st.out) + 1,
                                                            Len(next.out))])]
    /\ UNCHANGED <<stage, inp, ovars>>

\* the closing lines and tex_path.write_text("\n".join(out))
LatexClose ==
    /\ stage = "lines"
    /\ outp.todo = <<>>
    /\ \E last \in {LatexFinish(outp.st)} :
           outp' = [outp EXCEPT !.st = last, !.tex = JoinLines(last.out)]
    /\ stage' = "done"
    /\ UNCHANGED <<inp, ovars>>

NextLatex ==
    \/ LatexOpen
    \/ LatexLine
    \/ LatexClose

SpecLatex == InitLatex /\ [][NextLatex]_vars

----------------------------------------------------------------------------
(* Claims about the typeset renderer (checked under SpecLatex) *)

ENVS == {ITEMIZE, ENUMERATE, QUOTE, VERBATIM}

\* whether `part` occurs in `line`
Contains(line, part) ==
    \E i \in 1..(Len(line) - Len(part) + 1) : SubSeq(line, i, i + Len(part) - 1) = part

\* The environment commands of a line of the output, as LaTeX reads it: inside
\* verbatim only the text \end{verbatim} is a command.  r counts the begin and
\* end commands per environment, the environments open, and records an end
\* command that closes nothing (bad) and the document end marker (ended,
\* open_at_end).
ReadLine(r, line) ==
    IF r.verb
    THEN IF Contains(line, EndCmd(VERBATIM))
         THEN [r EXCEPT !.verb = FALSE, !.ends[VERBATIM] = @ + 1, !.open[VERBATIM] = @ - 1]
         ELSE r
    ELSE IF \E e \in ENVS : line = BeginCmd(e)
    THEN LET e == CHOOSE x \in ENVS : line = BeginCmd(x)
         IN  [r EXCEPT !.verb = (e = VERBATIM), !.begins[e] = @ + 1, !.open[e] = @ + 1]
    ELSE IF \E e \in ENVS : line = EndCmd(e)
    THEN LET e == CHOOSE x \in ENVS : line = EndCmd(x)
         IN  IF r.open[e] = 0
             THEN [r EXCEPT !.bad = TRUE, !.ends[e] = @ + 1]
             ELSE [r EXCEPT !.ends[e] = @ + 1, !.open[e] = @ - 1]
    ELSE IF line = EndCmd(DOCUMENT)
    THEN [r EXCEPT !.ended = TRUE, !.open_at_end = \E e \in ENVS : r.open[e] > 0]
    ELSE r

RECURSIVE ReadFrom(_, _)
ReadFrom(r, lines) ==
    IF lines = <<>> THEN r ELSE ReadFrom(ReadLine(r, Head(lines)), Tail(lines))

ReadOutput(out) ==
    ReadFrom([verb |-> FALSE, bad |-> FALSE, ended |-> FALSE, open_at_end |-> FALSE,
              begins |-> [e \in ENVS |-> 0], ends |-> [e \in ENVS |-> 0],
              open |-> [e \in ENVS |-> 0]], out)

Balanced(out) ==
    LET r == ReadOutput(out)
    IN  /\ \A e \in ENVS : r.begins[e] = r.ends[e]
        /\ ~r.bad
        /\ r.ended
        /\ ~r.open_at_end

\* C14: for every input line sequence the output is balanced at end of input:
\* for each of itemize, enumerate, quote and verbatim there are as many begin
\* commands as end commands, every end command closes an open environment of
\* its kind, and nothing is open at the document end marker.
C14_BalancedAtEnd ==
    stage = "done" => Balanced(outp.st.out)

\* a line of a fenced block that holds the text \end{verbatim}
VerbatimEndInFence ==
    \E i \in 1..Len(outp.log) :
        outp.log[i].before.in_code /\ Contains(outp.log[i].line, EndCmd(VERBATIM))

\* the output is balanced whenever no line of a fenced block holds the text
\* \end{verbatim}
BalancedWithoutVerbatimEnd ==
    (stage = "done" /\ ~VerbatimEndInFence) => Balanced(outp.st.out)

\* a list, a quote and a fenced block were opened and the output is balanced
BalancedReached ==
    /\ stage = "done"
    /\ Balanced(outp.st.out)
    /\ \A e \in {ITEMIZE, QUOTE, VERBATIM} : ReadOutput(outp.st.out).begins[e] = 1
    /\ outp.log[Len(outp.log)].after.in_code

\* a fence line: its trimmed content starts with three backticks
IsFence(line) == startswith(strip(line), FENCE)

\* number of fence lines among the first n processed lines
FencesIn(n) ==
    Cardinality({i \in 1..n : IsFence(outp.log[i].line)})

\* line i lies between an opening fence line and the next fence line
InFence(i) == ~IsFence(outp.log[i].line) /\ FencesIn(i - 1) % 2 = 1

\* C15: every line between an opening fence line and the next fence line is
\* emitted unchanged as the only output of that line, and leaves list_mode
\* and in_quote (and in_code) as they were; every fence line toggles in_code,
\* opening verbatim only when none is open and closing it otherwise.
C15_FencedLinesVerbatim ==
    stage \in {"lines", "done"} =>
        \A i \in 1..Len(outp.log) :
            LET e == outp.log[i]
            IN  /\ e.before.in_code <=> (FencesIn(i - 1) % 2 = 1)
                /\ InFence(i) =>
                      /\ e.emitted = <<e.line>>
                      /\ e.after = e.before
                /\ IsFence(e.line) =>
                      /\ e.after.in_code = ~e.before.in_code
                      /\ e.emitted[Len(e.emitted)] =
                            IF e.before.in_code THEN EndCmd(VERBATIM) ELSE BeginCmd(VERBATIM)
                      /\ \A j \in 1..(Len(e.emitted) - 1) : e.emitted[j] # BeginCmd(VERBATIM)

\* C15 witness: a heading line with a reserved character was converted
\* outside a fenced block and emitted as it is inside the block that the
\* next fence line closed
C15_Witness ==
    /\ stage = "done"
    /\ Len(outp.log) = 4
    /\ outp.log[1].line = <<"#", SP, "_">>
    /\ outp.log[1].emitted # <<outp.log[1].line>>
    /\ IsFence(outp.log[2].line)
    /\ outp.log[3].line = <<"#", SP, "_">>
    /\ outp.log[3].emitted = << <<"#", SP, "_">> >>
    /\ outp.log[3].before.in_code
    /\ IsFence(outp.log[4].line)
    /\ ~outp.log[4].after.in_code

\* C15 witness: a bullet line and a quote line were emitted unchanged inside
\* a fenced block and opened neither a list nor a quote
C15_WitnessKinds ==
    /\ stage = "done"
    /\ Len(outp.log) = 3
    /\ InFence(2)
    /\ InFence(3)
    /\ outp.log[2].line = <<"-", SP, "a">>
    /\ outp.log[3].line = <<">", SP, "q">>
    /\ outp.log[3].emitted = << <<">", SP, "q">> >>
    /\ outp.log[3].after.list_mode = <<>>
    /\ ~outp.log[3].after.in_quote

----------------------------------------------------------------------------
(* Specification SpecInline: escape_latex and convert_inline_md on every    *)
(* short text                                                              *)

MaxEscLen    == 3   \* longest text over the reserved characters
MaxInlineLen == 6   \* longest text over backtick, star, underscore and a letter

RESERVED == {BACKSLASH, "&", "%", "$", "#", "_", "{", "}", "~", "^"}

InlineAlphabet == {BACKTICK, STAR, "_", "a"}

InlineTexts ==
    SeqsUpTo(RESERVED \cup {"a"}, MaxEscLen) \cup SeqsUpTo(InlineAlphabet, MaxInlineLen)

InitInline ==
    /\ stage = "input"
    /\ inp \in [text : InlineTexts]
    /\ outp = <<>>
    /\ OrchIdle

ApplyEscape ==
    /\ stage = "input"
    /\ outp' = [fn |-> "escape_latex", value |-> escape_latex(inp.text)]
    /\ stage' = "done"
    /\ UNCHANGED <<inp, ovars>>

ApplyInline ==
    /\ stage = "input"
    /\ outp' = [fn |-> "convert_inline_md", value |-> convert_inline_md(inp.text)]
    /\ stage' = "done"
    /\ UNCHANGED <<inp, ovars>>

NextInline ==
    \/ ApplyEscape
    \/ ApplyInline

SpecInline == InitInline /\ [][NextInline]_vars

----------------------------------------------------------------------------
(* Claims about inline conversion (checked under SpecInline) *)

\* number of places where `part` occurs in `s`
Occurrences(s, part) ==
    Cardinality({i \in 1..(Len(s) - Len(part) + 1) : SubSeq(s, i, i + Len(part) - 1) = part})

\* the code spans and the segments around them when the k backticks of the
\* text are paired left to right: segs are the k + 1 stretches between
\* backticks; span j is segs[2j]; what precedes span j is segs[2j - 1]; the
\* rest is segs[k + 1], preceded when k is odd by segs[k] and the unmatched
\* backtick
RECURSIVE SpansFrom(_, _, _)
SpansFrom(segs, j, n) ==
    IF j > n THEN <<>>
    ELSE apply_emphasis(segs[2 * j - 1]) \o TEXTTT \o escape_latex(segs[2 * j]) \o <<"}">>
         \o SpansFrom(segs, j + 1, n)

PairedLeftToRight(text) ==
    LET k == Occurrences(text, <<BACKTICK>>)
        segs == SplitTicks(text)
        rest == IF k % 2 = 0 THEN segs[k + 1]
                ELSE segs[k] \o <<BACKTICK>> \o segs[k + 1]
    IN  SpansFrom(segs, 1, k \div 2) \o apply_emphasis(rest)

\* C16: for a text with k backticks the result is, left to right, the
\* floor(k/2) code spans, each with its content escaped and not
\* emphasis-converted, between the outside segments escaped and
\* emphasis-converted; when k is odd the last backtick stays in the result as
\* a literal backtick together with the text after it, and opens no code span.
C16_BackticksPairLeftToRight ==
    (stage = "done" /\ outp.fn = "convert_inline_md") =>
        LET k == Occurrences(inp.text, <<BACKTICK>>)
        IN  /\ outp.value = PairedLeftToRight(inp.text)
            /\ Occurrences(outp.value, TEXTTT) = k \div 2
            /\ Occurrences(outp.value, <<BACKTICK>>) = k % 2

\* C16 witness: of three backticks the first two made a code span whose
\* stars were kept, and the third stayed literal
C16_Witness ==
    /\ stage = "done"
    /\ outp.fn = "convert_inline_md"
    /\ Occurrences(inp.text, <<BACKTICK>>) = 3
    /\ Occurrences(SplitTicks(inp.text)[2], <<STAR>>) = 2
    /\ Occurrences(outp.value, TEXTTT) = 1
    /\ Occurrences(outp.value, TEXTIT) = 0
    /\ Occurrences(outp.value, <<STAR>>) = 2
    /\ Occurrences(outp.value, <<BACKTICK>>) = 1

\* the designated escape sequence of a reserved character, any other
\* character unchanged
EscapeOf(c) ==
    IF \E i \in 1..Len(REPLACEMENTS) : REPLACEMENTS[i].k = c
    THEN REPLACEMENTS[CHOOSE i \in 1..Len(REPLACEMENTS) : REPLACEMENTS[i].k = c].v
    ELSE <<c>>

\* C17: the result of escape_latex is the concatenation, character by
\* character, of each reserved character's escape sequence and of each other
\* character unchanged; no character of an escape sequence is escaped again.
C17_EscapesCharByChar ==
    (stage = "done" /\ outp.fn = "escape_latex") =>
        outp.value = join([i \in 1..Len(inp.text) |-> EscapeOf(inp.text[i])])

\* without a backslash in the text the result is the character-by-character
\* concatenation
EscapesCharByCharWithoutBackslash ==
    (stage = "done" /\ outp.fn = "escape_latex" /\ Occurrences(inp.text, <<BACKSLASH>>) = 0) =>
        outp.value = join([i \in 1..Len(inp.text) |-> EscapeOf(inp.text[i])])

----------------------------------------------------------------------------
(* Claims about the chunk loop of the run command (checked under Spec) *)

\* the chunk loop of the current run has dealt with index k: it went past k,
\* or it stopped at k on an empty response
Handled(k) ==
    /\ cfg.nchunks > 1
    /\ k \in 1..cfg.nchunks
    /\ \/ pc \in {"chunks", "write", "done"} /\ k < idx
       \/ pc = "aborted" /\ hist.error = "empty_response" /\ (k < idx \/ k = hist.fail_idx)

\* the positions of the backend calls made for chunk k
CallsFor(k) == {i \in 1..Len(calls) : IsChunkCall(calls[i]) /\ calls[i].prompt.idx = k}

\* resume is enabled, and the checkpoint file of k existed with non-empty
\* trimmed content when the run started
Resumable(k) ==
    /\ resume
    /\ hist.start_disk.ckpt[k].exists
    /\ strip(hist.start_disk.ckpt[k].content) # <<>>

C18_WitnessNoResume ==
    /\ pc = "done"
    /\ ~resume
    /\ cfg.nchunks = 2
    /\ hist.start_disk.ckpt[1] = File(<<"a">>)
    /\ CallsFor(1) # {}
    /\ disk.ckpt[1].content = <<"b", CR, LF, "c">>

----------------------------------------------------------------------------
(* Claims about lists and quotes in the typeset renderer (under SpecLatex) *)

\* the kind of a line outside fenced blocks
TexKind(line) ==
    IF IsFence(line) THEN "fence"
    ELSE IF \A i \in 1..Len(line) : IsSpace(line[i]) THEN "blank"
    ELSE IF \E n \in 1..4 : startswith(line, [i \in 1..(n + 1) |-> IF i <= n THEN "#" ELSE SP])
         THEN "heading"
    ELSE IF startswith(line, <<">", SP>>) THEN "quote"
    ELSE IF startswith(lstrip(line), <<"-", SP>>) THEN "bullet"
    ELSE IF NumberedMatch(line).ok THEN "numbered"
    ELSE "plain"

\* the environment that wraps a run of lines of a kind
EnvOfKind(kind) ==
    CASE kind = "bullet" -> ITEMIZE
      [] kind = "numbered" -> ENUMERATE
      [] kind = "quote" -> QUOTE

IsEnvCmd(l) == \E e \in ENVS : l = BeginCmd(e) \/ l = EndCmd(e)

\* processed line i lies outside fenced blocks and is no fence line
Outside(i) == ~outp.log[i].before.in_code /\ ~IsFence(outp.log[i].line)

\* line i is a bullet, numbered or quote line outside fenced blocks
InRun(i) == Outside(i) /\ TexKind(outp.log[i].line) \in {"bullet", "numbered", "quote"}

\* line i continues the run of line i - 1
Continues(i) ==
    /\ i > 1
    /\ InRun(i)
    /\ InRun(i - 1)
    /\ TexKind(outp.log[i].line) = TexKind(outp.log[i - 1].line)

\* the end commands of what was open before a line
EndsOfOpen(before) ==
    (IF before.list_mode # <<>> THEN <<EndCmd(before.list_mode)>> ELSE <<>>)
    \o (IF before.in_quote THEN <<EndCmd(QUOTE)>> ELSE <<>>)

\* C19: outside fenced blocks, a line that continues a run of bullet, numbered
\* or quote lines emits its text only, no begin and no end; the first line of
\* a run emits the end commands of what was open (a numbered list before a
\* bullet line and the reverse, any list before a quote line, a quote before a
\* list line), then one begin command, then its text; the line after a run,
\* or the end of input, ends the run's environment; and every non-quote line
\* met while a quote is open emits the quote's end command first.
C19_OneEnvironmentPerRun ==
    stage \in {"lines", "done"} =>
        /\ \A i \in 1..Len(outp.log) :
              LET e == outp.log[i]
                  kind == TexKind(e.line)
              IN  /\ Continues(i) =>
                        /\ Len(e.emitted) = 1
                        /\ ~IsEnvCmd(e.emitted[1])
                        /\ e.after = e.before
                  /\ (InRun(i) /\ ~Continues(i)) =>
                        /\ e.emitted = EndsOfOpen(e.before)
                                       \o <<BeginCmd(EnvOfKind(kind)), e.emitted[Len(e.emitted)]>>
                        /\ ~IsEnvCmd(e.emitted[Len(e.emitted)])
                        /\ Len(EndsOfOpen(e.before)) <= 1
                  /\ InRun(i) =>
                        /\ e.after.in_quote = (kind = "quote")
                        /\ e.after.list_mode = IF kind = "quote" THEN <<>> ELSE EnvOfKind(kind)
                  /\ (i > 1 /\ InRun(i - 1) /\ ~Continues(i)) =>
                        e.emitted[1] = EndCmd(EnvOfKind(TexKind(outp.log[i - 1].line)))
                  /\ (~e.before.in_code /\ kind # "quote" /\ e.before.in_quote) =>
                        /\ e.emitted[1] = EndCmd(QUOTE)
                        /\ \A j \in 2..Len(e.emitted) : e.emitted[j] # EndCmd(QUOTE)
        /\ (stage = "done" /\ outp.log # <<>> /\ InRun(Len(outp.log))) =>
              LET out == outp.st.out
              IN  out[Len(out) - 1] = EndCmd(EnvOfKind(TexKind(outp.log[Len(outp.log)].line)))

\* C19 witness: a numbered line, two bullet lines and a quote line: the
\* numbered list was closed before the bulleted list was opened, the second
\* bullet line emitted its item only, the quote line closed the list, and the
\* end of input closed the quote
C19_Witness ==
    /\ stage = "done"
    /\ Len(outp.log) = 4
    /\ TexKind(outp.log[1].line) = "numbered"
    /\ outp.log[2].emitted[1] = EndCmd(ENUMERATE)
    /\ outp.log[2].emitted[2] = BeginCmd(ITEMIZE)
    /\ Continues(3)
    /\ Len(outp.log[3].emitted) = 1
    /\ outp.log[4].emitted[1] = EndCmd(ITEMIZE)
    /\ outp.log[4].emitted[2] = BeginCmd(QUOTE)
    /\ outp.st.out[Len(outp.st.out) - 1] = EndCmd(QUOTE)

\* C19 witness: two quote lines were wrapped in one quote environment, closed
\* by the text line that followed
C19_WitnessQuote ==
    /\ stage = "done"
    /\ Len(outp.log) = 3
    /\ outp.log[1].emitted[1] = BeginCmd(QUOTE)
    /\ Continues(2)
    /\ TexKind(outp.log[3].line) = "plain"
    /\ outp.log[3].emitted[1] = EndCmd(QUOTE)
    /\ Len(outp.log[3].emitted) = 2

----------------------------------------------------------------------------
(* Specification SpecChunks: build_transcript_chunks on every short list of *)
(* small files.  The piece limit max(10000, chunk_chars - 4000) keeps every *)
(* small file in one piece, so the function is also applied with the limit  *)
(* given as a small number, which splits these files into several pieces.   *)

MaxFiles      == 2   \* longest list of input files
MaxPieceLimit == 3   \* largest piece limit of the scaled-down application

\* an empty file, a file of whitespace, a one-line file, a file of two
\* paragraphs, and a file with a space inside and a "\r" at the end
FileContents ==
    { <<>>,
      <<SP, LF>>,
      <<"a">>,
      <<"a", LF, LF, "b", "c">>,
      <<"a", "b", SP, "c", CR>> }

InputFiles == [name : {<<"f">>, <<"g">>}, content : FileContents]

ChunkBudgets == {c \in 1..MaxChunkChars : c % 15 = 0}

\* the body of build_transcript_chunks for a given piece limit
ChunksWithLimit(files, chunk_chars, file_piece_limit) ==
    LET units == build_units(files, file_piece_limit)
    IN  IF units = <<>> THEN <<>> ELSE pack_units(units, chunk_chars)

InitChunks ==
    /\ stage = "input"
    /\ inp \in [files : SeqsUpTo(InputFiles, MaxFiles), chunk_chars : ChunkBudgets,
                small_limit : 2..MaxPieceLimit]
    /\ outp = <<>>
    /\ OrchIdle

\* build_transcript_chunks(files, chunk_chars)
ApplyChunks ==
    /\ stage = "input"
    /\ outp' = [limit |-> Max(MIN_FILE_PIECE, inp.chunk_chars - PIECE_MARGIN),
                chunks |-> build_transcript_chunks(inp.files, inp.chunk_chars)]
    /\ stage' = "done"
    /\ UNCHANGED <<inp, ovars>>

\* the same with file_piece_limit = small_limit
ApplyChunksSmallLimit ==
    /\ stage = "input"
    /\ outp' = [limit |-> inp.small_limit,
                chunks |-> ChunksWithLimit(inp.files, inp.chunk_chars, inp.small_limit)]
    /\ stage' = "done"
    /\ UNCHANGED <<inp, ovars>>

NextChunks ==
    \/ ApplyChunks
    \/ ApplyChunksSmallLimit

SpecChunks == InitChunks /\ [][NextChunks]_vars

----------------------------------------------------------------------------
(* Claims about build_transcript_chunks (checked under SpecChunks) *)

EmptyAfterTrim(f) == strip(f.content) = <<>>

\* the formatted units of the pieces 1..total of one file's trimmed text
UnitsOfFile(f, limit) ==
    LET pieces == split_large_text(read_text(f.content), limit)
    IN  [i \in 1..Len(pieces) |->
            UNIT_HEAD \o f.name
            \o (IF Len(pieces) = 1 THEN <<>>
                ELSE <<SP, "(", "p", "a", "r", "t", SP>> \o Str(i) \o <<"/">>
                     \o Str(Len(pieces)) \o <<")">>)
            \o <<LF, LF>> \o pieces[i] \o <<LF>>]

\* the units built from the non-empty files in input order and, within a
\* file, in piece order
RECURSIVE UnitsInOrder(_, _)
UnitsInOrder(files, limit) ==
    IF files = <<>> THEN <<>>
    ELSE (IF EmptyAfterTrim(Head(files)) THEN <<>> ELSE UnitsOfFile(Head(files), limit))
         \o UnitsInOrder(Tail(files), limit)

\* the numbers n such that the chunk is the first n units, concatenated and
\* trimmed at both ends
FirstUnits(chunk, units) ==
    {n \in 1..Len(units) : chunk = strip(join(SubSeq(units, 1, n)))}

\* reading the chunks in order uses up the units in order: each chunk is a
\* group of one or more consecutive units, in one way only, and no unit is
\* left over
RECURSIVE ReadsAs(_, _)
ReadsAs(cs, units) ==
    IF cs = <<>> THEN units = <<>>
    ELSE /\ Cardinality(FirstUnits(Head(cs), units)) = 1
         /\ LET n == CHOOSE x \in FirstUnits(Head(cs), units) : TRUE
            IN  ReadsAs(Tail(cs), SubSeq(units, n + 1, Len(units)))

C20_WitnessEmpty ==
    /\ stage = "done"
    /\ Len(inp.files) = 2
    /\ inp.files[1].content = <<SP, LF>>
    /\ outp.chunks = <<>>

----------------------------------------------------------------------------
(* Claim about the block states of the typeset renderer (under SpecLatex)  *)

\* the environments that the block states say are open
OpenEnvs(flags) ==
    (IF flags.in_code THEN {VERBATIM} ELSE {})
    \cup (IF flags.in_quote THEN {QUOTE} ELSE {})
    \cup (IF flags.list_mode # <<>> THEN {flags.list_mode} ELSE {})

\* how many of in_code, in_quote and list_mode are active
ActiveCount(flags) ==
    (IF flags.in_code THEN 1 ELSE 0)
    + (IF flags.in_quote THEN 1 ELSE 0)
    + (IF flags.list_mode # <<>> THEN 1 ELSE 0)

\* the begin and end commands the renderer emitted for processed line i; the
\* text of a line inside a fenced block is content, not a command
EnvCmds(i) ==
    IF InFence(i) THEN <<>> ELSE SelectSeq(outp.log[i].emitted, IsEnvCmd)

\* the lines emitted after the last processed line, before the document end
ClosingCmds ==
    LET out == outp.st.out
        emitted == [i \in 1..Len(outp.log) |-> Len(outp.log[i].emitted)]
        RECURSIVE Sum(_)
        Sum(n) == IF n = 0 THEN 0 ELSE emitted[n] + Sum(n - 1)
    IN  SubSeq(out, Len(Preamble(inp.title)) + Sum(Len(outp.log)) + 1, Len(out) - 1)

\* the block states after the last processed line
LastFlags ==
    IF outp.log = <<>>
    THEN [in_code |-> FALSE, in_quote |-> FALSE, list_mode |-> <<>>]
    ELSE outp.log[Len(outp.log)].after

\* read from a set of open environments, no command of cmds begins an
\* environment while another is open, and every end command ends the one
\* environment that is open
RECURSIVE Flat(_, _)
Flat(open, cmds) ==
    IF cmds = <<>> THEN TRUE
    ELSE IF \E e \in ENVS : Head(cmds) = BeginCmd(e)
    THEN /\ open = {}
         /\ Flat({e \in ENVS : Head(cmds) = BeginCmd(e)}, Tail(cmds))
    ELSE /\ open = {e \in ENVS : Head(cmds) = EndCmd(e)}
         /\ Flat({}, Tail(cmds))

\* C21: after every processed line at most one of in_code, in_quote and
\* list_mode is active, the block states are exactly the environments left
\* open by the commands emitted so far, and no begin command is emitted
\* while an environment is open, up to the document end marker (read on the
\* log of a finished run, which holds every processed line).
C21_OneBlockStateActive ==
    stage = "done" =>
        /\ \A i \in 1..Len(outp.log) :
              \A e \in {outp.log[i]} : \A cmds \in {EnvCmds(i)} :
                  /\ ActiveCount(e.after) <= 1
                  /\ ActiveCount(e.before) <= 1
                  /\ e.before = (IF i = 1
                                 THEN [in_code |-> FALSE, in_quote |-> FALSE, list_mode |-> <<>>]
                                 ELSE outp.log[i - 1].after)
                  /\ Flat(OpenEnvs(e.before), cmds)
                  /\ cmds # <<>> =>
                        OpenEnvs(e.after) = {v \in ENVS : cmds[Len(cmds)] = BeginCmd(v)}
                  /\ cmds = <<>> => e.after = e.before
        /\ \A closing \in {ClosingCmds} :
              /\ Flat(OpenEnvs(LastFlags), closing)
              /\ Len(closing) = ActiveCount(LastFlags)

\* C21 witness: a bullet line opened a list, a quote line closed it and
\* opened a quote, and a fence line closed the quote and opened a fenced
\* block, which the end of input closed
C21_Witness ==
    /\ stage = "done"
    /\ Len(outp.log) = 3
    /\ outp.log[1].after = [in_code |-> FALSE, in_quote |-> FALSE, list_mode |-> ITEMIZE]
    /\ outp.log[2].after = [in_code |-> FALSE, in_quote |-> TRUE, list_mode |-> <<>>]
    /\ outp.log[3].after = [in_code |-> TRUE, in_quote |-> FALSE, list_mode |-> <<>>]
    /\ EnvCmds(2) = <<EndCmd(ITEMIZE), BeginCmd(QUOTE)>>
    /\ EnvCmds(3) = <<EndCmd(QUOTE), BeginCmd(VERBATIM)>>
    /\ ClosingCmds = <<EndCmd(VERBATIM)>>

====
